---- MODULE Spec2Model ----
(***************************************************************************)
(* Model of the GIMP MCP plugin (gimp-mcp-plugin.py).                      *)
(*                                                                         *)
(* The bitmap extraction pipeline (MCPPlugin._get_current_image_bitmap):   *)
(* one invocation of the handler is a walk of pc from "idle" to            *)
(* "returned"; every host call the handler makes (Gimp.Image.new,          *)
(* select_rectangle, duplicate, scale, delete, the export procedures, the  *)
(* temporary file) is recorded in the variable host, so that the           *)
(* properties can speak about what the handler did to the host.            *)
(*                                                                         *)
(* The command dispatcher (MCPPlugin.execute_command and                   *)
(* exec_and_get_results): every connection handler thread is an entry of   *)
(* conn; the execution context, sys.stdout and the auto-disconnect flag    *)
(* are the state the threads share.                                        *)
(*                                                                         *)
(* The server (MCPPlugin.run, shutdown_server, _handle_client): server     *)
(* holds the running flag, the listening socket and the position of run(); *)
(* an entry of conn also holds the client socket, the bytes the client     *)
(* sends, the bytes read so far and what was written back.                 *)
(***************************************************************************)
EXTENDS Integers, Sequences, FiniteSets, TLC

VARIABLES pc, params, loc, host, result,
          conn, context, sys_stdout, auto_disconnect_client, server

(* the variables of one invocation of _get_current_image_bitmap *)
bitmapVars == <<pc, params, loc, host, result>>

(* the variables of the plugin object and of its connection handlers *)
serverVars == <<conn, context, sys_stdout, auto_disconnect_client, server>>

vars == <<pc, params, loc, host, result,
          conn, context, sys_stdout, auto_disconnect_client, server>>

----------------------------------------------------------------------------
(* Bounds of the model *)

MaxImg == 2
MaxCoord == 2
MaxBound == 1
MaxFit == 9
MaxCmds == 2
MaxOut == 2
MaxWire == 3
MaxSignals == 2

(* Program constant *)
LARGE_SCALING_THRESHOLD == 4

----------------------------------------------------------------------------
(* JSON / Python values carried by a request.  A value is a record with    *)
(* its Python type name (as type(v).__name__ prints it) and, for an int,   *)
(* its number.  "absent" marks a key the dict does not carry.              *)

IntV(n) == [t |-> "int", v |-> n]
NoneV == [t |-> "NoneType", v |-> 0]
StrV == [t |-> "str", v |-> 0]
Absent == [t |-> "absent", v |-> 0]

RegionKeys == {"origin_x", "origin_y", "width", "height", "max_width", "max_height"}

(* The order in which the validation loop visits the keys *)
KeyOrder == <<"origin_x", "origin_y", "width", "height", "max_width", "max_height">>

(* dict.get(key): None when the key is missing *)
Get(d, key) == IF d[key].t = "absent" THEN NoneV ELSE d[key]

IsNone(x) == x.t = "NoneType"

(* params.get("region", {}): the empty dict carries no key *)
EmptyRegion == [k \in RegionKeys |-> Absent]

(* truth value of a dict: it has at least one key *)
Truthy(region) == \E k \in RegionKeys : region[k].t # "absent"

----------------------------------------------------------------------------
(* Result envelopes.  The error text is kept as the parts the code formats *)
(* into it: the message, the key it names, the type names, the numbers and *)
(* the underlying causes.                                                  *)

Err(msg, key, expected, actual, nums, causes) ==
    [msg |-> msg, key |-> key, expected |-> expected, actual |-> actual,
     nums |-> nums, causes |-> causes]

NoError == Err("", "", "", "", <<>>, <<>>)

NoResults == [image_written |-> FALSE, width |-> 0, height |-> 0,
              original_width |-> 0, original_height |-> 0,
              region_extracted |-> FALSE, scaled |-> FALSE]

NoEnvelope == [status |-> "none", error |-> NoError, traceback |-> FALSE,
               results |-> NoResults]

ErrorEnvelope(e) == [status |-> "error", error |-> e, traceback |-> FALSE,
                     results |-> NoResults]

(* the handler's own except clause: "Processing error: {e}" plus traceback *)
ProcessingError(e) ==
    [status |-> "error",
     error |-> Err("Processing error", e.key, e.expected, e.actual, e.nums,
                   <<e.msg>> \o e.causes),
     traceback |-> TRUE, results |-> NoResults]

(* an exception the handler does not catch reaches execute_command, whose  *)
(* except Exception turns it into an envelope with str(e) and a traceback  *)
DispatcherError(e) ==
    [status |-> "error", error |-> e, traceback |-> TRUE, results |-> NoResults]

SuccessEnvelope(r) == [status |-> "success", error |-> NoError,
                       traceback |-> FALSE, results |-> r]

----------------------------------------------------------------------------
(* Step 1: type and sign validation of the region keys *)

TypeErrorFor(key, val) ==
    Err("must be of type", key, "int", val.t, <<>>, <<>>)

NegativeErrorFor(key, val) ==
    Err("must be non-negative", key, "", "", <<val.v>>, <<>>)

(* Mutant of CheckKey: the sign of an int is not checked *)
CheckKey_NoSignCheck(region, key) ==
    IF region[key].t # "absent" /\ ~IsNone(region[key])
    THEN IF region[key].t # "int"
         THEN TypeErrorFor(key, region[key])
         ELSE NoError
    ELSE NoError

(* Mutant of CheckKey: the type of a value is not checked *)
CheckKey_NoTypeCheck(region, key) ==
    IF region[key].t # "absent" /\ ~IsNone(region[key])
    THEN IF region[key].v < 0
         THEN NegativeErrorFor(key, region[key])
         ELSE NoError
    ELSE NoError

(* body of the validation loop for one key *)
CheckKey(region, key) ==
    IF region[key].t # "absent" /\ ~IsNone(region[key])
    THEN IF region[key].t # "int"
         THEN TypeErrorFor(key, region[key])
         ELSE IF region[key].v < 0
              THEN NegativeErrorFor(key, region[key])
              ELSE NoError
    ELSE NoError

RECURSIVE FirstViolation(_, _)
FirstViolation(region, i) ==
    IF i > Len(KeyOrder) THEN NoError
    ELSE LET e == CheckKey(region, KeyOrder[i])
         IN IF e # NoError THEN e ELSE FirstViolation(region, i + 1)

ValidateRegion(region) ==
    IF Truthy(region) THEN FirstViolation(region, 1) ELSE NoError

----------------------------------------------------------------------------
(* The handler's locals and the host's record of what was done to it *)

Images == {"orig", "crop", "dup"}

InitLoc ==
    [origin_x |-> NoneV, origin_y |-> NoneV,
     region_width |-> NoneV, region_height |-> NoneV,
     scaled_to_width |-> NoneV, scaled_to_height |-> NoneV,
     max_width |-> NoneV, max_height |-> NoneV,
     orig_img_width |-> 0, orig_img_height |-> 0,
     working_image |-> "None", should_delete_working |-> FALSE,
     final_image |-> "None", should_delete_final |-> FALSE,
     current_width |-> 0, current_height |-> 0,
     target_width |-> 0, target_height |-> 0,
     errors |-> <<>>, pending |-> "none"]

InitHost ==
    [size |-> [i \in Images |-> <<0, 0>>],
     layers |-> [i \in Images |-> FALSE],
     created |-> {},
     deletes |-> [i \in Images |-> 0],
     scales |-> [i \in Images |-> 0],
     scale_raised |-> FALSE,
     selection |-> FALSE,
     selects |-> 0,
     temp_allocs |-> 0,
     temp_exists |-> FALSE,
     temp_written |-> FALSE,
     attempts |-> <<>>,
     warnings |-> {}]

(* The connection handler threads (threading.Thread of line 118); two are *)
(* enough to let requests overlap                                          *)
Handlers == {"h1", "h2"}

(* A decoded request.  raw tells the sentinel string and undecodable text  *)
(* from a JSON object; of the object, the "type" field, the "cmds" list    *)
(* and the list params.args = [mode, [items]] are kept: head holds the     *)
(* mode when the list has a first element, rest the item list when it has  *)
(* a second one.                                                           *)
NoList == [present |-> FALSE, items |-> <<>>]

List(items) == [present |-> TRUE, items |-> items]

NoArgs == [present |-> FALSE, head |-> <<>>, rest |-> NoList]

Args(head, rest) == [present |-> TRUE, head |-> head, rest |-> rest]

Json(type, cmds, args) ==
    [raw |-> "json", type |-> type, cmds |-> cmds, args |-> args]

NoRequest == [raw |-> "none", type |-> "absent", cmds |-> NoList, args |-> NoArgs]

(* The envelope execute_command returns: results is "OK", the values of    *)
(* the expressions, the outputs of the statements or what a handler        *)
(* returned; error is str(e); traceback tells whether the key is there;    *)
(* keys are the keys the dict literal is written with                      *)
Envelope(status, results, values, outputs, error, traceback) ==
    [status |-> status, results |-> results, values |-> values,
     outputs |-> outputs, error |-> error, traceback |-> traceback,
     keys |-> {"status"}
              \cup (IF results # "none" THEN {"results"} ELSE {})
              \cup (IF error # "" THEN {"error"} ELSE {})
              \cup (IF traceback THEN {"traceback"} ELSE {})]

NoResponse == Envelope("none", "none", <<>>, <<>>, "", FALSE)

(* A handler thread: its position, its request, the branch execute_command *)
(* took, the locals a (mode, items), the statement being executed, the     *)
(* outputs collected so far, the locals buffer and original_stdout of      *)
(* exec_and_get_results, the exception raised, the envelope returned       *)
(* nothing has been written to the client socket *)
NoWire == [format |-> "none", body |-> NoResponse]

(* Of _handle_client: the client socket, the bytes the peer has still to   *)
(* deliver (stream) and whether it closes its sending side after them      *)
(* (eof), the local buffer of line 156 (data), the number of calls of      *)
(* execute_command and of completed writes, what was written               *)
InitConn ==
    [pc |-> "idle", request |-> NoRequest, route |-> "none",
     mode |-> "none", items |-> <<>>, i |-> 0, outputs |-> <<>>,
     buffer |-> <<>>, original |-> "none", raised |-> "none",
     response |-> NoResponse,
     sock |-> "none", stream |-> <<>>, eof |-> FALSE, data |-> <<>>,
     dispatches |-> 0, writes |-> 0, wire |-> NoWire]

(* Lines 48-57: not running, no socket; run() has not been called.         *)
(* signals counts the deliveries of SIGTERM / SIGINT, seen records that    *)
(* run() has found the shutdown (the loop test or accept() failed)         *)
InitServer ==
    [pc |-> "idle", running |-> FALSE, socket |-> "None",
     signals |-> 0, seen |-> FALSE]

(* Lines 48-57: no thread yet, self.context holds only the Gimp import,    *)
(* sys.stdout is the console of the process, auto-disconnect is on         *)
ServerInit ==
    /\ conn = [h \in Handlers |-> InitConn]
    /\ context = {}
    /\ sys_stdout = "console"
    /\ auto_disconnect_client = TRUE
    /\ server = InitServer

Init ==
    /\ pc = "idle"
    /\ params = [region |-> EmptyRegion, max_width |-> NoneV, max_height |-> NoneV]
    /\ loc = InitLoc
    /\ host = InitHost
    /\ result = NoEnvelope
    /\ ServerInit

(* return <envelope> *)
Return(env) ==
    /\ pc' = "returned"
    /\ result' = env

----------------------------------------------------------------------------
(* Requests.  A request is the params dict of a get_image_bitmap message.  *)
(* Three families of inputs are enumerated: regions whose six keys range   *)
(* over every kind of value (missing, None, wrong type, negative, valid),  *)
(* well-typed regions anywhere in or around the image, and regions at the  *)
(* origin (or no region) combined with region-level and top-level bounds.  *)

RichVals == {Absent, NoneV, StrV, IntV(-1), IntV(0), IntV(1)}

RegionBoundVals == {Absent} \cup {IntV(n) : n \in 0..MaxBound}

TopBoundVals == {NoneV} \cup {IntV(n) : n \in 0..MaxBound}

RegionOf(x, y, w, h, mw, mh) ==
    [k \in RegionKeys |->
        CASE k = "origin_x" -> x
          [] k = "origin_y" -> y
          [] k = "width" -> w
          [] k = "height" -> h
          [] k = "max_width" -> mw
          [] k = "max_height" -> mh]

Start(p) ==
    /\ params' = p
    /\ pc' = "validate"
    /\ UNCHANGED <<loc, host, result>>

RequestAnyRegion ==
    /\ pc = "idle"
    /\ UNCHANGED serverVars
    /\ \E region \in [RegionKeys -> RichVals] :
        Start([region |-> region, max_width |-> NoneV, max_height |-> NoneV])

RequestRegion ==
    /\ pc = "idle"
    /\ UNCHANGED serverVars
    /\ \E x, y, w, h \in 0..MaxCoord :
        Start([region |-> RegionOf(IntV(x), IntV(y), IntV(w), IntV(h), Absent, Absent),
               max_width |-> NoneV, max_height |-> NoneV])

RequestScaled ==
    /\ pc = "idle"
    /\ UNCHANGED serverVars
    /\ \E w, h \in 0..MaxCoord, withRegion \in BOOLEAN,
          rmw, rmh \in RegionBoundVals, mw, mh \in TopBoundVals :
        /\ ~withRegion => (w = 0 /\ h = 0)
        /\ Start([region |-> IF withRegion
                             THEN RegionOf(IntV(0), IntV(0), IntV(w), IntV(h), rmw, rmh)
                             ELSE RegionOf(Absent, Absent, Absent, Absent, rmw, rmh),
                  max_width |-> mw, max_height |-> mh])

----------------------------------------------------------------------------
(* Lines 292-322: read the parameters, validate the region keys *)

Validate ==
    /\ pc = "validate"
    /\ UNCHANGED serverVars
    /\ LET region == params.region
           e == ValidateRegion(region)
       IN IF e # NoError
          THEN /\ Return(ErrorEnvelope(e))
               /\ UNCHANGED loc
          ELSE /\ loc' = [loc EXCEPT !.max_width = params.max_width,
                                     !.max_height = params.max_height,
                                     !.origin_x = Get(region, "origin_x"),
                                     !.origin_y = Get(region, "origin_y"),
                                     !.region_width = Get(region, "width"),
                                     !.region_height = Get(region, "height"),
                                     !.scaled_to_width = Get(region, "max_width"),
                                     !.scaled_to_height = Get(region, "max_height")]
               /\ pc' = "resolve"
               /\ UNCHANGED result
    /\ UNCHANGED <<params, host>>

(* Mutant of ResolveSource: the empty image list is not checked, so that   *)
(* images[0] raises IndexError, which the handler does not catch           *)
ResolveSource_Unchecked ==
    /\ pc = "resolve"
    /\ UNCHANGED serverVars
    /\ \/ /\ Return(DispatcherError(Err("list index out of range",
                                        "", "", "", <<>>, <<>>)))
          /\ UNCHANGED <<loc, host>>
       \/ \E W, H \in 1..MaxImg :
            /\ host' = [host EXCEPT !.size["orig"] = <<W, H>>]
            /\ loc' = [loc EXCEPT !.orig_img_width = W, !.orig_img_height = H]
            /\ pc' = "region"
            /\ UNCHANGED result
    /\ UNCHANGED params

(* Lines 324-337: Gimp.get_images(); the first image is the source *)
ResolveSource ==
    /\ pc = "resolve"
    /\ UNCHANGED serverVars
    /\ \/ /\ Return(ErrorEnvelope(Err("No images are currently open in GIMP",
                                      "", "", "", <<>>, <<>>)))
          /\ UNCHANGED <<loc, host>>
       \/ \E W, H \in 1..MaxImg :
            /\ host' = [host EXCEPT !.size["orig"] = <<W, H>>]
            /\ loc' = [loc EXCEPT !.orig_img_width = W, !.orig_img_height = H]
            /\ pc' = "region"
            /\ UNCHANGED result
    /\ UNCHANGED params

(* Mutant of RegionRequested: all() instead of any() *)
RegionRequested_All(l) ==
    /\ ~IsNone(l.origin_x)
    /\ ~IsNone(l.origin_y)
    /\ ~IsNone(l.region_width)
    /\ ~IsNone(l.region_height)

(* Line 344: any(param is not None for param in [origin_x, ...]) *)
RegionRequested(l) ==
    \/ ~IsNone(l.origin_x)
    \/ ~IsNone(l.origin_y)
    \/ ~IsNone(l.region_width)
    \/ ~IsNone(l.region_height)

(* Line 348 *)
RegionIncomplete(l) ==
    \/ IsNone(l.origin_x)
    \/ IsNone(l.origin_y)
    \/ IsNone(l.region_width)
    \/ IsNone(l.region_height)

(* Mutant of BoundsInvalid: >= instead of > on the far edges *)
BoundsInvalid_OffByOne(x, y, w, h, W, H) ==
    \/ x < 0
    \/ y < 0
    \/ x + w >= W
    \/ y + h >= H

(* Lines 355-357 *)
BoundsInvalid(x, y, w, h, W, H) ==
    \/ x < 0
    \/ y < 0
    \/ x + w > W
    \/ y + h > H

RequiredError ==
    Err("For region selection, all parameters are required", "", "", "", <<>>, <<>>)

BoundsError(l) ==
    Err("Region bounds invalid", "", "", "",
        <<l.orig_img_width, l.orig_img_height,
          l.origin_x.v, l.origin_y.v, l.region_width.v, l.region_height.v>>, <<>>)

(* Mutant of CheckRegion: the crop is allocated before the bounds check *)
CheckRegion_AllocFirst ==
    /\ pc = "region"
    /\ UNCHANGED serverVars
    /\ IF RegionRequested(loc)
       THEN IF RegionIncomplete(loc)
            THEN /\ Return(ErrorEnvelope(RequiredError))
                 /\ UNCHANGED <<loc, host>>
            ELSE IF BoundsInvalid(loc.origin_x.v, loc.origin_y.v,
                                  loc.region_width.v, loc.region_height.v,
                                  loc.orig_img_width, loc.orig_img_height)
                 THEN /\ Return(ErrorEnvelope(BoundsError(loc)))
                      /\ host' = [host EXCEPT !.created = @ \cup {"crop"}]
                      /\ UNCHANGED loc
                 ELSE /\ pc' = "crop_new"
                      /\ UNCHANGED <<loc, host, result>>
       ELSE /\ loc' = [loc EXCEPT !.working_image = "orig",
                                  !.should_delete_working = FALSE]
            /\ pc' = "scale_target"
            /\ UNCHANGED <<host, result>>
    /\ UNCHANGED params

(* Lines 339-362 and 413-417: region or full image *)
CheckRegion ==
    /\ pc = "region"
    /\ UNCHANGED serverVars
    /\ IF RegionRequested(loc)
       THEN IF RegionIncomplete(loc)
            THEN /\ Return(ErrorEnvelope(RequiredError))
                 /\ UNCHANGED loc
            ELSE IF BoundsInvalid(loc.origin_x.v, loc.origin_y.v,
                                  loc.region_width.v, loc.region_height.v,
                                  loc.orig_img_width, loc.orig_img_height)
                 THEN /\ Return(ErrorEnvelope(BoundsError(loc)))
                      /\ UNCHANGED loc
                 ELSE /\ pc' = "crop_new"
                      /\ UNCHANGED <<loc, result>>
       ELSE /\ loc' = [loc EXCEPT !.working_image = "orig",
                                  !.should_delete_working = FALSE]
            /\ pc' = "scale_target"
            /\ UNCHANGED result
    /\ UNCHANGED <<params, host>>

(* A host call raised RuntimeError / AttributeError outside every inner    *)
(* handler: the except clause of lines 609-614 returns the envelope.       *)
HostError(what) == Err(what, "", "", "", <<>>, <<>>)

(* Lines 365-366: Gimp.Image.new(region_width, region_height, base_type) *)
CropNew ==
    /\ pc = "crop_new"
    /\ UNCHANGED serverVars
    /\ \/ /\ host' = [host EXCEPT !.created = @ \cup {"crop"},
                                  !.size["crop"] = <<loc.region_width.v, loc.region_height.v>>]
          /\ loc' = [loc EXCEPT !.working_image = "crop",
                                !.should_delete_working = TRUE]
          /\ pc' = "crop_select"
          /\ UNCHANGED result
       \/ /\ Return(ProcessingError(HostError("Gimp.Image.new failed")))
          /\ UNCHANGED <<loc, host>>
    /\ UNCHANGED params

(* Lines 368-378: select the rectangle on the source, fetch its layers *)
CropSelect ==
    /\ pc = "crop_select"
    /\ UNCHANGED serverVars
    /\ \/ /\ Return(ProcessingError(HostError("select_rectangle failed")))
          /\ UNCHANGED host
       \/ /\ host' = [host EXCEPT !.selection = TRUE, !.selects = @ + 1]
          /\ Return(ErrorEnvelope(HostError("No layers found in original image")))
       \/ /\ host' = [host EXCEPT !.selection = TRUE, !.selects = @ + 1,
                                  !.layers["orig"] = TRUE]
          /\ pc' = "crop_copy"
          /\ UNCHANGED result
    /\ UNCHANGED <<params, loc>>

(* Lines 380-400: new layer, insert, copy, paste, anchor *)
CropCopy ==
    /\ pc = "crop_copy"
    /\ UNCHANGED serverVars
    /\ \/ /\ host' = [host EXCEPT !.layers["crop"] = TRUE]
          /\ pc' = "crop_clear"
          /\ UNCHANGED result
       \/ /\ Return(ProcessingError(HostError("copy/paste failed")))
          /\ UNCHANGED host
    /\ UNCHANGED <<params, loc>>

(* Lines 402-411: clear the selection; a failure is only a warning *)
CropClearSelection ==
    /\ pc = "crop_clear"
    /\ UNCHANGED serverVars
    /\ \/ host' = [host EXCEPT !.selection = FALSE]
       \/ host' = [host EXCEPT !.warnings = @ \cup {"Could not clear selection"}]
    /\ pc' = "scale_target"
    /\ UNCHANGED <<params, loc, result>>

----------------------------------------------------------------------------
(* Mutant of ScaleBounds: the top-level pair is looked at first *)
ScaleBounds_TopFirst(l) ==
    IF ~IsNone(l.max_width) /\ ~IsNone(l.max_height)
    THEN <<l.max_width, l.max_height>>
    ELSE IF ~IsNone(l.scaled_to_width) /\ ~IsNone(l.scaled_to_height)
         THEN <<l.scaled_to_width, l.scaled_to_height>>
         ELSE <<NoneV, NoneV>>

(* Lines 429-437: the scale target; region-level bounds win *)
ScaleBounds(l) ==
    IF ~IsNone(l.scaled_to_width) /\ ~IsNone(l.scaled_to_height)
    THEN <<l.scaled_to_width, l.scaled_to_height>>
    ELSE IF ~IsNone(l.max_width) /\ ~IsNone(l.max_height)
         THEN <<l.max_width, l.max_height>>
         ELSE <<NoneV, NoneV>>

(* Python floats are IEEE 754 doubles: 53 significant bits, every          *)
(* operation rounded to nearest, ties to even.  A double is kept here as   *)
(* its exact value m * 2^(e - 52), with m an integer of 53 bits held in    *)
(* limbs of 15 bits (least significant first), so that no intermediate     *)
(* value leaves the range of the integers of the checker.  Operands are    *)
(* non-negative integers below 2^13, which covers every image size and     *)
(* bound used here.                                                        *)

LimbBase == 2^15

LimbIndex == 1..9

BigOfInt(n) ==
    [i \in LimbIndex |-> IF i = 1 THEN n % LimbBase
                         ELSE IF i = 2 THEN n \div LimbBase ELSE 0]

(* limbs i.. of x * m + carry *)
RECURSIVE MulLimbs(_, _, _, _)
MulLimbs(x, m, i, carry) ==
    IF i > Len(x) THEN <<>>
    ELSE LET v == x[i] * m + carry
         IN <<v % LimbBase>> \o MulLimbs(x, m, i + 1, v \div LimbBase)

BigMulSmall(x, m) == MulLimbs(x, m, 1, 0)

BigAddSmall(x, c) == MulLimbs(x, 1, 1, c)

(* limbs i.. of x - y - borrow, for x >= y *)
RECURSIVE SubLimbs(_, _, _, _)
SubLimbs(x, y, i, borrow) ==
    IF i > Len(x) THEN <<>>
    ELSE LET v == x[i] - y[i] - borrow
         IN IF v < 0 THEN <<v + LimbBase>> \o SubLimbs(x, y, i + 1, 1)
            ELSE <<v>> \o SubLimbs(x, y, i + 1, 0)

BigSub(x, y) == SubLimbs(x, y, 1, 0)

(* -1, 0 or 1 as x is below, equal to or above y; limbs compared from the  *)
(* most significant down                                                   *)
RECURSIVE CmpLimbs(_, _, _)
CmpLimbs(x, y, i) ==
    IF i = 0 THEN 0
    ELSE IF x[i] > y[i] THEN 1
    ELSE IF x[i] < y[i] THEN -1
    ELSE CmpLimbs(x, y, i - 1)

BigCmp(x, y) == CmpLimbs(x, y, Len(x))

(* x * 2^s *)
BigShl(x, s) ==
    LET y == BigMulSmall(x, 2^(s % 15))
        q == s \div 15
    IN [i \in LimbIndex |-> IF i <= q THEN 0 ELSE y[i - q]]

(* quotient and remainder of x by a small divisor b, limb by limb from the *)
(* most significant down                                                   *)
RECURSIVE DivLimbs(_, _, _, _)
DivLimbs(x, b, i, rem) ==
    IF i = 0 THEN [q |-> <<>>, r |-> rem]
    ELSE LET v == rem * LimbBase + x[i]
             rest == DivLimbs(x, b, i - 1, v % b)
         IN [q |-> Append(rest.q, v \div b), r |-> rest.r]

(* floor(log2(a / b)) for positive a, b *)
Log2Floor(a, b) ==
    CHOOSE e \in -14..14 :
        /\ IF e >= 0 THEN b * 2^e <= a ELSE b <= a * 2^(-e)
        /\ IF e + 1 >= 0 THEN a < b * 2^(e + 1) ELSE a * 2^(-(e + 1)) < b

FloatZero == [zero |-> TRUE, m |-> BigOfInt(0), e |-> 0]

(* a / b on two ints, b # 0: the quotient rounded to 53 bits *)
FloatDiv(a, b) ==
    IF a = 0 THEN FloatZero
    ELSE LET e == Log2Floor(a, b)
             d == DivLimbs(BigShl(BigOfInt(a), 52 - e), b, Len(BigOfInt(a)), 0)
             up == 2 * d.r > b \/ (2 * d.r = b /\ d.q[1] % 2 = 1)
             m == IF up THEN BigAddSmall(d.q, 1) ELSE d.q
         IN IF BigCmp(m, BigShl(BigOfInt(1), 53)) = 0
            THEN [zero |-> FALSE, m |-> BigShl(BigOfInt(1), 52), e |-> e + 1]
            ELSE [zero |-> FALSE, m |-> m, e |-> e]

(* x > y on two non-negative doubles *)
FloatGt(x, y) ==
    IF x.zero THEN FALSE
    ELSE IF y.zero THEN TRUE
    ELSE IF x.e # y.e THEN x.e > y.e
    ELSE BigCmp(x.m, y.m) = 1

(* the largest k below 2^(j+1) + k0 with k * D <= N, bit by bit *)
RECURSIVE QuotBits(_, _, _, _)
QuotBits(N, D, k, j) ==
    IF j < 0 THEN k
    ELSE IF BigCmp(BigMulSmall(D, k + 2^j), N) <= 0
         THEN QuotBits(N, D, k + 2^j, j - 1)
         ELSE QuotBits(N, D, k, j - 1)

(* int() of the double nearest to N / D.  With k = floor(N / D), the       *)
(* doubles just below k + 1 are 2^(p - 52) apart, p = floor(log2 k) (-1    *)
(* for k = 0); the quotient rounds up to k + 1 when it lies at or above    *)
(* the midpoint (k + 1) - 2^(p - 53) (at the midpoint the tie goes to the  *)
(* even mantissa, which is that of k + 1)                                  *)
IntOfQuotient(N, D) ==
    LET k == QuotBits(N, D, 0, 13)
        p == IF k = 0 THEN -1 ELSE CHOOSE e \in 0..14 : 2^e <= k /\ k < 2^(e + 1)
        gap == BigSub(BigMulSmall(D, k + 1), N)
    IN IF BigCmp(BigShl(gap, 53 - p), D) <= 0 THEN k + 1 ELSE k

(* int(n / x) for an int n and a double x # 0 *)
IntDivFloat(n, x) ==
    IF n = 0 THEN 0 ELSE IntOfQuotient(BigShl(BigOfInt(n), 52 - x.e), x.m)

(* int(n * x) for an int n and a double x *)
IntMulFloat(n, x) ==
    IF n = 0 \/ x.zero THEN 0
    ELSE IntOfQuotient(BigMulSmall(x.m, n), BigShl(BigOfInt(1), 52 - x.e))

(* Mutant of CenterInside: the comparison of the aspect ratios is reversed *)
CenterInside_Reversed(cw, ch, mw, mh) ==
    LET aspect_ratio == FloatDiv(cw, ch)
        max_aspect_ratio == FloatDiv(mw, mh)
    IN IF FloatGt(max_aspect_ratio, aspect_ratio)
       THEN <<mw, IntDivFloat(mw, aspect_ratio)>>
       ELSE <<IntMulFloat(mh, aspect_ratio), mh>>

(* Mutant of CenterInside: the bounds are an upper limit only, an image    *)
(* that is within them keeps its size                                      *)
CenterInside_LimitOnly(cw, ch, mw, mh) ==
    LET aspect_ratio == FloatDiv(cw, ch)
        max_aspect_ratio == FloatDiv(mw, mh)
    IN IF cw <= mw /\ ch <= mh
       THEN <<cw, ch>>
       ELSE IF FloatGt(aspect_ratio, max_aspect_ratio)
            THEN <<mw, IntDivFloat(mw, aspect_ratio)>>
            ELSE <<IntMulFloat(mh, aspect_ratio), mh>>

(* Lines 442-452: center-inside fitting, in the double arithmetic of the   *)
(* code; ch # 0 and mh # 0                                                 *)
CenterInside(cw, ch, mw, mh) ==
    LET aspect_ratio == FloatDiv(cw, ch)
        max_aspect_ratio == FloatDiv(mw, mh)
    IN IF FloatGt(aspect_ratio, max_aspect_ratio)
       THEN <<mw, IntDivFloat(mw, aspect_ratio)>>
       ELSE <<IntMulFloat(mh, aspect_ratio), mh>>

ZeroDivisionError == Err("division by zero", "", "", "", <<>>, <<>>)

(* Lines 419-457: final image defaults to the working image; compute the   *)
(* target size; decide whether a scaled duplicate is needed.  The two      *)
(* divisions raise ZeroDivisionError, which the handler does not catch.    *)
ScaleTarget ==
    /\ pc = "scale_target"
    /\ UNCHANGED serverVars
    /\ LET cw == host.size[loc.working_image][1]
           ch == host.size[loc.working_image][2]
           b == ScaleBounds(loc)
           base == [loc EXCEPT !.final_image = loc.working_image,
                               !.should_delete_final = loc.should_delete_working,
                               !.current_width = cw, !.current_height = ch,
                               !.target_width = cw, !.target_height = ch]
       IN IF ~IsNone(b[1]) /\ ~IsNone(b[2])
          THEN IF ch = 0 \/ b[2].v = 0
               THEN /\ loc' = base
                    /\ Return(DispatcherError(ZeroDivisionError))
               ELSE LET t == CenterInside(cw, ch, b[1].v, b[2].v)
                    IN /\ loc' = [base EXCEPT !.target_width = t[1],
                                              !.target_height = t[2]]
                       /\ pc' = IF t[1] # cw \/ t[2] # ch THEN "duplicate" ELSE "mkstemp"
                       /\ UNCHANGED result
          ELSE /\ loc' = base
               /\ pc' = "mkstemp"
               /\ UNCHANGED result
    /\ UNCHANGED <<params, host>>

(* Mutant of Duplicate: the working image is scaled in place *)
Duplicate_InPlace ==
    /\ pc = "duplicate"
    /\ UNCHANGED serverVars
    /\ loc' = [loc EXCEPT !.final_image = loc.working_image,
                          !.should_delete_final = TRUE]
    /\ pc' = "scale"
    /\ UNCHANGED <<params, host, result>>

(* Lines 459-460: final_image = working_image.duplicate() *)
Duplicate ==
    /\ pc = "duplicate"
    /\ UNCHANGED serverVars
    /\ \/ /\ host' = [host EXCEPT !.created = @ \cup {"dup"},
                                  !.size["dup"] = host.size[loc.working_image],
                                  !.layers["dup"] = host.layers[loc.working_image]]
          /\ loc' = [loc EXCEPT !.final_image = "dup", !.should_delete_final = TRUE]
          /\ pc' = "scale"
          /\ UNCHANGED result
       \/ /\ Return(ProcessingError(HostError("duplicate failed")))
          /\ UNCHANGED <<loc, host>>
    /\ UNCHANGED params

(* Mutant of LargeScaling: the threshold itself already warns *)
LargeScaling_AtThreshold(cw, ch, tw, th) ==
    tw * th >= LARGE_SCALING_THRESHOLD * (cw * ch)

(* Lines 463-465: the large-scaling warning, scaling_ratio > 4.0 with      *)
(* scaling_ratio the double nearest to (tw * th) / (cw * ch).  The areas   *)
(* are exact ints; 4.0 is a double and rounding is monotone, so a quotient *)
(* of at most 4 never rounds above 4.0, and a quotient above 4 exceeds it  *)
(* by at least 1 / (cw * ch), more than the 2^-51 below which it would     *)
(* round to 4.0, for every area below 2^51.                                *)
LargeScaling(cw, ch, tw, th) ==
    tw * th > LARGE_SCALING_THRESHOLD * (cw * ch)

ScaleError(l) ==
    Err("Failed to scale image", "", "", "",
        <<l.current_width, l.current_height, l.target_width, l.target_height>>,
        <<"scale_error">>)

(* Mutant of ScaleFailed: the duplicate is not deleted before re-raising *)
ScaleFailed_NoDelete(h) ==
    /\ host' = h
    /\ Return(ProcessingError(ScaleError(loc)))

(* Lines 469-476: the handler of a failed scale() deletes the duplicate    *)
(* (a failing delete is swallowed) and re-raises with context              *)
ScaleFailed(h) ==
    /\ host' = [h EXCEPT !.deletes[loc.final_image] =
                             IF loc.should_delete_final THEN @ + 1 ELSE @]
    /\ Return(ProcessingError(ScaleError(loc)))

(* Lines 462-476: warn, then final_image.scale(target_width, target_height) *)
Scale ==
    /\ pc = "scale"
    /\ UNCHANGED serverVars
    /\ IF loc.current_width * loc.current_height = 0
       THEN /\ Return(DispatcherError(ZeroDivisionError))
            /\ UNCHANGED host
       ELSE LET warned == IF LargeScaling(loc.current_width, loc.current_height,
                                          loc.target_width, loc.target_height)
                          THEN [host EXCEPT !.warnings = @ \cup {"Large scaling operation"}]
                          ELSE host
            IN \/ /\ host' = [warned EXCEPT
                                 !.scales[loc.final_image] = @ + 1,
                                 !.size[loc.final_image] = <<loc.target_width, loc.target_height>>]
                  /\ pc' = "mkstemp"
                  /\ UNCHANGED result
               \/ ScaleFailed([warned EXCEPT !.scale_raised = TRUE])
    /\ UNCHANGED <<params, loc>>

----------------------------------------------------------------------------
(* Lines 478-480: tempfile.mkstemp(suffix='.png') *)
Mkstemp ==
    /\ pc = "mkstemp"
    /\ UNCHANGED serverVars
    /\ \/ /\ host' = [host EXCEPT !.temp_allocs = @ + 1, !.temp_exists = TRUE]
          /\ pc' = "export_layers"
          /\ UNCHANGED result
       \/ /\ Return(ProcessingError(HostError("mkstemp failed")))
          /\ UNCHANGED host
    /\ UNCHANGED <<params, loc>>

(* return <envelope> inside the try of line 482: the finally clause runs   *)
(* before the envelope is handed to the caller                             *)
ReturnThroughFinally(env) ==
    /\ pc' = "finally"
    /\ result' = env

(* Lines 485-500: the final image must have a layer.  A region crop got    *)
(* its layer in lines 393-395; the source image has whatever it has.       *)
ExportLayers ==
    /\ pc = "export_layers"
    /\ UNCHANGED serverVars
    /\ \/ /\ loc.working_image # "crop"
          /\ ReturnThroughFinally(ErrorEnvelope(
                 HostError("No layers found in the processed image")))
       \/ /\ pc' = "export_primary"
          /\ UNCHANGED result
    /\ UNCHANGED <<params, loc, host>>

Attempt(h, proc) == [h EXCEPT !.attempts = Append(@, proc)]

Written(h) == [h EXCEPT !.temp_written = TRUE]

(* Lines 555-563: the combined error of the failed attempts *)
AllExportFailed(causes) ==
    Err("All export methods failed", "", "", "", <<>>, causes)

(* Mutant of ExportPrimary: a raising primary export gives up at once *)
ExportPrimary_NoFallback ==
    /\ pc = "export_primary"
    /\ UNCHANGED serverVars
    /\ \/ /\ ReturnThroughFinally(ErrorEnvelope(
                 HostError("PNG export procedure not found")))
          /\ UNCHANGED <<loc, host>>
       \/ /\ host' = Written(Attempt(host, "file-png-export"))
          /\ pc' = "read_back"
          /\ UNCHANGED <<loc, result>>
       \/ /\ host' = Attempt(host, "file-png-export")
          /\ pc' = "read_back"
          /\ UNCHANGED <<loc, result>>
       \/ /\ host' = Attempt(host, "file-png-export")
          /\ loc' = [loc EXCEPT !.errors = Append(@, "export_error")]
          /\ ReturnThroughFinally(ErrorEnvelope(
                 AllExportFailed(<<"export_error">>)))
    /\ UNCHANGED params

(* Lines 502-533: the primary export, procedure file-png-export *)
ExportPrimary ==
    /\ pc = "export_primary"
    /\ UNCHANGED serverVars
    /\ \/ /\ ReturnThroughFinally(ErrorEnvelope(
                 HostError("PNG export procedure not found")))
          /\ UNCHANGED <<loc, host>>
       \/ /\ host' = Written(Attempt(host, "file-png-export"))
          /\ pc' = "read_back"
          /\ UNCHANGED <<loc, result>>
       \/ /\ host' = Attempt(host, "file-png-export")
          /\ pc' = "read_back"
          /\ UNCHANGED <<loc, result>>
       \/ /\ host' = Attempt(host, "file-png-export")
          /\ loc' = [loc EXCEPT !.errors = Append(@, "export_error")]
          /\ pc' = "export_fallback"
          /\ UNCHANGED result
    /\ UNCHANGED params

(* Lines 534-543: first fallback, Gimp.file_save *)
ExportFallback ==
    /\ pc = "export_fallback"
    /\ UNCHANGED serverVars
    /\ \/ /\ host' = Written(Attempt(host, "Gimp.file_save"))
          /\ pc' = "read_back"
          /\ UNCHANGED loc
       \/ /\ host' = Attempt(host, "Gimp.file_save")
          /\ pc' = "read_back"
          /\ UNCHANGED loc
       \/ /\ host' = Attempt(host, "Gimp.file_save")
          /\ loc' = [loc EXCEPT !.errors = Append(@, "fallback_error")]
          /\ pc' = "export_pdb"
    /\ UNCHANGED <<params, result>>

(* Lines 544-563: second fallback, procedure gimp-file-save *)
ExportPdb ==
    /\ pc = "export_pdb"
    /\ UNCHANGED serverVars
    /\ \/ /\ ReturnThroughFinally(ErrorEnvelope(AllExportFailed(loc.errors)))
          /\ UNCHANGED <<loc, host>>
       \/ /\ host' = Written(Attempt(host, "gimp-file-save"))
          /\ pc' = "read_back"
          /\ UNCHANGED <<loc, result>>
       \/ /\ host' = Attempt(host, "gimp-file-save")
          /\ pc' = "read_back"
          /\ UNCHANGED <<loc, result>>
       \/ /\ host' = Attempt(host, "gimp-file-save")
          /\ loc' = [loc EXCEPT !.errors = Append(@, "pdb_error")]
          /\ ReturnThroughFinally(ErrorEnvelope(
                 AllExportFailed(Append(loc.errors, "pdb_error"))))
    /\ UNCHANGED params

(* Lines 574-590: the success envelope *)
BitmapResults ==
    [image_written |-> host.temp_written,
     width |-> host.size[loc.final_image][1],
     height |-> host.size[loc.final_image][2],
     original_width |-> loc.orig_img_width,
     original_height |-> loc.orig_img_height,
     region_extracted |-> RegionRequested(loc),
     scaled |-> (loc.target_width # loc.current_width
                 \/ loc.target_height # loc.current_height)]

(* Lines 565-590: read the file back; open() may raise OSError *)
ReadBack ==
    /\ pc = "read_back"
    /\ UNCHANGED serverVars
    /\ \/ /\ ReturnThroughFinally(SuccessEnvelope(BitmapResults))
          /\ UNCHANGED loc
       \/ /\ loc' = [loc EXCEPT !.pending = "OSError"]
          /\ pc' = "finally"
          /\ UNCHANGED result
    /\ UNCHANGED <<params, host>>

(* Line 594 *)
DeletesFinal(l) == l.should_delete_final /\ l.final_image # l.working_image

(* Line 599 *)
DeletesWorking(l) == l.should_delete_working /\ l.working_image # "orig"

(* Mutant of RemoveTemp: the temporary file is left behind *)
RemoveTemp_Never(h) == h

(* Lines 605-607 *)
RemoveTemp(h) == IF h.temp_exists THEN [h EXCEPT !.temp_exists = FALSE] ELSE h

(* Lines 592-607: delete the temporary images, then remove the temporary   *)
(* file.  A delete() that raises is caught and only printed, so the        *)
(* outcome of the call leaves no trace beyond the call itself.             *)
Cleanup(h, l) ==
    LET h1 == IF DeletesFinal(l)
              THEN [h EXCEPT !.deletes[l.final_image] = @ + 1] ELSE h
        h2 == IF DeletesWorking(l)
              THEN [h1 EXCEPT !.deletes[l.working_image] = @ + 1] ELSE h1
    IN RemoveTemp(h2)

(* Lines 592-614: the finally clause, then either the pending return or    *)
(* the except clause for an exception raised inside the try                *)
Finally ==
    /\ pc = "finally"
    /\ UNCHANGED serverVars
    /\ host' = Cleanup(host, loc)
    /\ pc' = "returned"
    /\ result' = IF loc.pending # "none"
                 THEN ProcessingError(HostError(loc.pending))
                 ELSE result
    /\ UNCHANGED <<params, loc>>

(* The envelope has been handed to the caller; the next request starts     *)
(* from a fresh invocation                                                 *)
Done ==
    /\ pc = "returned"
    /\ UNCHANGED serverVars
    /\ pc' = "idle"
    /\ params' = [region |-> EmptyRegion, max_width |-> NoneV, max_height |-> NoneV]
    /\ loc' = InitLoc
    /\ host' = InitHost
    /\ result' = NoEnvelope

Next ==
    \/ RequestAnyRegion
    \/ RequestRegion
    \/ RequestScaled
    \/ Validate
    \/ ResolveSource
    \/ CheckRegion
    \/ CropNew
    \/ CropSelect
    \/ CropCopy
    \/ CropClearSelection
    \/ ScaleTarget
    \/ Duplicate
    \/ Scale
    \/ Mkstemp
    \/ ExportLayers
    \/ ExportPrimary
    \/ ExportFallback
    \/ ExportPdb
    \/ ReadBack
    \/ Finally
    \/ Done

Spec == Init /\ [][Next]_vars

----------------------------------------------------------------------------
(* The scaling stage on larger images.  A full-image request with the      *)
(* top-level bounds (mw, mh) on an open image of size (cw, ch) has passed  *)
(* lines 292-417 and stands before line 419.  The sizes are all the small  *)
(* ones and the sizes the tests of the repository use.                     *)

TestSizes ==
    {<<1920, 1080, 800, 800>>, <<600, 800, 1000, 600>>,
     <<1920, 1080, 960, 540>>, <<1920, 1080, 3840, 2160>>,
     <<1920, 1080, 7680, 4320>>, <<400, 300, 800, 600>>}

FitSizes == ((1..MaxFit) \X (1..MaxFit) \X (1..MaxFit) \X (1..MaxFit)) \cup TestSizes

FitInit ==
    /\ pc = "scale_target"
    /\ result = NoEnvelope
    /\ ServerInit
    /\ \E c \in FitSizes :
        /\ params = [region |-> EmptyRegion,
                     max_width |-> IntV(c[3]), max_height |-> IntV(c[4])]
        /\ loc = [InitLoc EXCEPT !.max_width = IntV(c[3]),
                                 !.max_height = IntV(c[4]),
                                 !.orig_img_width = c[1],
                                 !.orig_img_height = c[2],
                                 !.working_image = "orig"]
        /\ host = [InitHost EXCEPT !.size["orig"] = <<c[1], c[2]>>]

FitNext ==
    \/ ScaleTarget
    \/ Duplicate
    \/ Scale

SpecFit == FitInit /\ [][FitNext]_vars

----------------------------------------------------------------------------
(* The command dispatcher: execute_command and exec_and_get_results *)

KnownTypes ==
    {"get_image_bitmap", "get_image_metadata", "get_gimp_info", "get_context_state"}

TypeVals == KnownTypes \cup {"absent", "other"}

(* The statements a request may carry: print("...") writes one line;       *)
(* x = 1 binds the name x; print(x) reads it; raise Exception("boom"),     *)
(* raise Exception() and raise SystemExit raise.  The expressions: a       *)
(* constant one (1 + 1) and the name x; run as a statement, an expression  *)
(* is evaluated in the context and prints nothing.                         *)
StmtKinds == {"print", "bind", "use", "raise", "raise_empty", "exit"}

ExprKinds == {"const", "name"}

(* the lists of at most MaxCmds items *)
ListsOf(S) == UNION {[1..n -> S] : n \in 0..MaxCmds}

(* Mutant of Route: the "cmds" field is looked at before the "type" field *)
Route_CmdsFirst(m) ==
    IF m.raw = "disable_auto_disconnect" THEN "sentinel"
    ELSE IF m.raw # "json" THEN "JSONDecodeError"
    ELSE IF m.cmds.present THEN "cmds"
    ELSE IF m.type \in KnownTypes THEN m.type
    ELSE "args"

(* Lines 216-236: the branch execute_command takes *)
Route(m) ==
    IF m.raw = "disable_auto_disconnect" THEN "sentinel"
    ELSE IF m.raw # "json" THEN "JSONDecodeError"
    ELSE IF m.type \in KnownTypes THEN m.type
    ELSE IF m.cmds.present THEN "cmds"
    ELSE "args"

(* Mutant of SentinelFlag: the sentinel toggles the flag *)
SentinelFlag_Toggle(auto) == ~auto

(* Line 217: self.auto_disconnect_client = False *)
SentinelFlag(auto) == FALSE

(* Mutant of ExceptionEnvelope: the except clause hands back the traceback *)
(* alone                                                                   *)
ExceptionEnvelope_TracebackOnly(text) ==
    [Envelope("error", "none", <<>>, <<>>, text, TRUE)
        EXCEPT !.keys = {"status", "traceback"}]

(* Lines 275-282: except Exception as e; the literal has the three keys,   *)
(* whatever str(e) is                                                      *)
ExceptionEnvelope(text) ==
    [Envelope("error", "none", <<>>, <<>>, text, TRUE)
        EXCEPT !.keys = {"status", "error", "traceback"}]

(* return <envelope> *)
Returned(rec, env) == [rec EXCEPT !.pc = "respond", !.response = env]

(* an exception reached the except clause of execute_command *)
Raised(rec, exc, text) ==
    [rec EXCEPT !.pc = "respond", !.raised = exc,
                !.response = ExceptionEnvelope(text)]

(* print(): the text goes to the stream sys.stdout names at that moment.   *)
(* The StringIO of a handler keeps who wrote to it, up to MaxOut lines;    *)
(* what goes to the console, or to a StringIO nobody will read, is not     *)
(* kept.                                                                   *)
WriteTo(c, stream, by) ==
    IF stream \in Handlers /\ Len(c[stream].buffer) < MaxOut
    THEN [c EXCEPT ![stream].buffer = Append(@, by)]
    ELSE c

(* The StringIO of handler h will not be read any more: whoever still      *)
(* holds it (sys.stdout, the original_stdout of another call) holds a      *)
(* stream whose text is lost                                               *)
Forget(stream, h) == IF stream = h THEN "lost" ELSE stream

Drop(c, h) == [u \in Handlers |-> [c[u] EXCEPT !.original = Forget(@, h)]]

(* Line 248: eval(e) is given no namespace, so that e is evaluated in the  *)
(* globals of the plugin module and the locals of the comprehension; of    *)
(* the names the statements bound in self.context, none is among them      *)
EvalNames(ctx) == {}

EvalRaises(items, ctx) ==
    \E k \in 1..Len(items) : items[k] = "name" /\ "x" \notin EvalNames(ctx)

(* The names of the sub-modes a request may give as a[0]: the two the     *)
(* plugin's own branch names, and the two call_api documents               *)
ModeNames ==
    {"python-fu-eval", "python-fu-exec", "pyGObject-console", "pyGObject-eval"}

(* Mutant of EvalMode: every name ending in -eval selects evaluation *)
EvalMode_AnyEval(name) == name \in {"python-fu-eval", "pyGObject-eval"}

(* Line 245: a[0] == 'python-fu-eval' *)
EvalMode(name) == name = "python-fu-eval"

(* Lines 238-273 up to the first statement, for a = head \o [rest] *)
AfterRouting(rec, head, rest, ctx) ==
    IF Len(head) = 0
    THEN Returned(rec, Envelope("error", "none", <<>>, <<>>,
                                "No command arguments provided", FALSE))
    ELSE LET r == [rec EXCEPT !.mode = head[1], !.items = rest.items]
         IN IF ~rest.present
            THEN Raised(r, "IndexError", "list index out of range")
            ELSE IF EvalMode(head[1])
                 THEN IF EvalRaises(rest.items, ctx)
                      THEN Raised(r, "NameError", "name 'x' is not defined")
                      ELSE Returned(r, Envelope("success", "values",
                                                [k \in 1..Len(rest.items) |-> "value"],
                                                <<>>, "", FALSE))
                 ELSE IF rest.items = <<>>
                      THEN Returned(r, Envelope("success", "outputs",
                                                <<>>, <<>>, "", FALSE))
                      ELSE [r EXCEPT !.pc = "exec_save", !.i = 1]

(* Lines 223-231: what the handler of a "type" request hands back.  The    *)
(* metadata, info and context handlers catch every Exception; the bitmap   *)
(* handler lets a ZeroDivisionError through (lines 442-443, 463)           *)
HandlerOutcomes(type, rec) ==
    {Returned(rec, Envelope("success", "handler", <<>>, <<>>, "", FALSE)),
     Returned(rec, Envelope("error", "none", <<>>, <<>>, "handler error", FALSE))}
    \cup (IF type = "get_image_bitmap"
          THEN {Raised(rec, "ZeroDivisionError", "division by zero")}
          ELSE {})

(* Lines 106-123 and 153-190: the accept loop prints the address of the   *)
(* client and starts the handler thread, which reads and decodes its       *)
(* request                                                                 *)
Receive(h, m) ==
    /\ conn' = WriteTo([conn EXCEPT ![h] = [InitConn EXCEPT !.pc = "received",
                                                            !.request = m]],
                       sys_stdout, "accept")
    /\ UNCHANGED <<context, sys_stdout, auto_disconnect_client>>
    /\ UNCHANGED bitmapVars
    /\ UNCHANGED server

Free(h) == conn[h].pc \in {"idle", "done", "died"}

(* no handler thread is at work *)
Quiet == \A u \in Handlers : Free(u)

ReceiveSentinel(h) ==
    /\ Quiet
    /\ Receive(h, [NoRequest EXCEPT !.raw = "disable_auto_disconnect"])

ReceiveUndecodable(h) ==
    /\ Quiet
    /\ Receive(h, [NoRequest EXCEPT !.raw = "not json"])

(* a JSON object with every value of "type", with and without "cmds",      *)
(* with and without params.args                                            *)
ReceiveTyped(h) ==
    /\ Quiet
    /\ \E type \in TypeVals,
          cmds \in {NoList, List(<<"print">>)},
          args \in {NoArgs, Args(<<"python-fu-eval">>, List(<<"const">>))} :
        Receive(h, Json(type, cmds, args))

(* {"params": {"args": a}} for a = [], [mode], [mode, items] *)
ReceiveArgs(h) ==
    /\ Quiet
    /\ \/ Receive(h, Json("absent", NoList, Args(<<>>, NoList)))
       \/ \E mode \in ModeNames :
            Receive(h, Json("absent", NoList, Args(<<mode>>, NoList)))
       \/ \E items \in ListsOf(ExprKinds) :
            Receive(h, Json("absent", NoList, Args(<<"python-fu-eval">>, List(items))))
       \/ \E items \in ListsOf(StmtKinds) :
            Receive(h, Json("absent", NoList, Args(<<"python-fu-exec">>, List(items))))
       \/ \E mode \in {"pyGObject-console", "pyGObject-eval"},
             items \in ListsOf(ExprKinds \cup {"print"}) :
            Receive(h, Json("absent", NoList, Args(<<mode>>, List(items))))

(* {"cmds": items} *)
ReceiveCmds(h) ==
    /\ Quiet
    /\ \E items \in ListsOf(StmtKinds) :
        Receive(h, Json("absent", List(items), NoArgs))

(* {"cmds": items} with statements that print, bind or raise, sent while   *)
(* another connection may be in the middle of its own                      *)
ReceiveTogether(h) ==
    /\ Free(h)
    /\ \E items \in ListsOf({"print", "bind", "raise"}) \ {<<>>} :
        Receive(h, Json("absent", List(items), NoArgs))

(* Lines 212-263: routing, the handlers, the empty-list check, expression  *)
(* evaluation, the entry into statement execution.  Every branch but the   *)
(* sentinel and the empty-list return prints before it hands over.         *)
ExecuteCommand(h) ==
    /\ conn[h].pc = "received"
    /\ LET m == conn[h].request
           r == Route(m)
           rec == [conn[h] EXCEPT !.route = r]
       IN CASE r = "sentinel" ->
                 /\ auto_disconnect_client' = SentinelFlag(auto_disconnect_client)
                 /\ conn' = [conn EXCEPT ![h] =
                               Returned(rec, Envelope("success", "OK", <<>>, <<>>, "", FALSE))]
            [] r = "JSONDecodeError" ->
                 /\ conn' = WriteTo([conn EXCEPT ![h] =
                                       Raised(rec, "JSONDecodeError", "Expecting value")],
                                    sys_stdout, h)
                 /\ UNCHANGED auto_disconnect_client
            [] r \in KnownTypes ->
                 /\ \E out \in HandlerOutcomes(r, rec) :
                        conn' = WriteTo([conn EXCEPT ![h] = out], sys_stdout, h)
                 /\ UNCHANGED auto_disconnect_client
            [] r = "cmds" ->
                 /\ conn' = WriteTo([conn EXCEPT ![h] =
                                       AfterRouting(rec, <<"python-fu-exec">>, m.cmds, context)],
                                    sys_stdout, h)
                 /\ UNCHANGED auto_disconnect_client
            [] r = "args" ->
                 /\ conn' = IF ~m.args.present
                            THEN WriteTo([conn EXCEPT ![h] =
                                            Raised(rec, "KeyError", "'params'")],
                                         sys_stdout, h)
                            ELSE IF m.args.head = <<>>
                            THEN [conn EXCEPT ![h] =
                                    AfterRouting(rec, m.args.head, m.args.rest, context)]
                            ELSE WriteTo([conn EXCEPT ![h] =
                                            AfterRouting(rec, m.args.head, m.args.rest, context)],
                                         sys_stdout, h)
                 /\ UNCHANGED auto_disconnect_client
    /\ UNCHANGED <<context, sys_stdout>>
    /\ UNCHANGED bitmapVars
    /\ UNCHANGED server

(* Lines 38-39: buffer = io.StringIO(); original_stdout = sys.stdout *)
ExecSave(h) ==
    /\ conn[h].pc = "exec_save"
    /\ conn' = [conn EXCEPT ![h].buffer = <<>>,
                            ![h].original = sys_stdout,
                            ![h].pc = "exec_redirect"]
    /\ UNCHANGED <<context, sys_stdout, auto_disconnect_client>>
    /\ UNCHANGED bitmapVars
    /\ UNCHANGED server

(* Line 40: sys.stdout = buffer *)
ExecRedirect(h) ==
    /\ conn[h].pc = "exec_redirect"
    /\ sys_stdout' = h
    /\ conn' = [conn EXCEPT ![h].pc = "exec_run"]
    /\ UNCHANGED <<context, auto_disconnect_client>>
    /\ UNCHANGED bitmapVars
    /\ UNCHANGED server

(* Mutant of Abort: the error envelope hands back the outputs of the       *)
(* statements that ran before the one that raised                          *)
Abort_KeepOutputs(h, exc, text) ==
    LET stream == Forget(sys_stdout, h)
        rec == [conn[h] EXCEPT !.buffer = <<>>, !.original = "none"]
        out == [Raised(rec, exc, text) EXCEPT !.response.outputs = conn[h].outputs]
    IN /\ sys_stdout' = stream
       /\ conn' = WriteTo(Drop([conn EXCEPT ![h] = out], h), stream, h)

(* The statement raised an Exception: it leaves exec_and_get_results       *)
(* before line 42, so that sys.stdout stays what it is and the buffer is   *)
(* never read; the except clause of lines 275-282 prints and returns the   *)
(* error envelope, which carries none of the outputs collected so far      *)
Abort(h, exc, text) ==
    LET stream == Forget(sys_stdout, h)
        rec == [conn[h] EXCEPT !.buffer = <<>>, !.original = "none",
                               !.outputs = <<>>]
    IN /\ sys_stdout' = stream
       /\ conn' = WriteTo(Drop([conn EXCEPT ![h] = Raised(rec, exc, text)], h),
                          stream, h)

(* Line 41: exec(command, context) *)
ExecRun(h) ==
    /\ conn[h].pc = "exec_run"
    /\ LET kind == conn[h].items[conn[h].i]
       IN CASE kind = "print" ->
                 /\ conn' = WriteTo([conn EXCEPT ![h].pc = "exec_restore"],
                                    sys_stdout, h)
                 /\ UNCHANGED <<context, sys_stdout>>
            [] kind = "bind" ->
                 /\ context' = context \cup {"x"}
                 /\ conn' = [conn EXCEPT ![h].pc = "exec_restore"]
                 /\ UNCHANGED sys_stdout
            [] kind = "use" ->
                 /\ IF "x" \in context
                    THEN /\ conn' = WriteTo([conn EXCEPT ![h].pc = "exec_restore"],
                                            sys_stdout, h)
                         /\ UNCHANGED sys_stdout
                    ELSE Abort(h, "NameError", "name 'x' is not defined")
                 /\ UNCHANGED context
            [] kind = "const" ->
                 /\ conn' = [conn EXCEPT ![h].pc = "exec_restore"]
                 /\ UNCHANGED <<context, sys_stdout>>
            [] kind = "name" ->
                 /\ IF "x" \in context
                    THEN /\ conn' = [conn EXCEPT ![h].pc = "exec_restore"]
                         /\ UNCHANGED sys_stdout
                    ELSE Abort(h, "NameError", "name 'x' is not defined")
                 /\ UNCHANGED context
            [] kind = "raise" ->
                 /\ Abort(h, "Exception", "boom")
                 /\ UNCHANGED context
            [] kind = "raise_empty" ->
                 /\ Abort(h, "Exception", "")
                 /\ UNCHANGED context
            [] kind = "exit" ->
                 (* SystemExit is no Exception: it passes the except clause *)
                 (* of line 275 and ends the thread in _handle_client       *)
                 /\ sys_stdout' = Forget(sys_stdout, h)
                 /\ conn' = Drop([conn EXCEPT ![h].pc = "died",
                                              ![h].raised = "SystemExit",
                                              ![h].buffer = <<>>,
                                              ![h].original = "none",
                                              ![h].outputs = <<>>], h)
                 /\ UNCHANGED context
    /\ UNCHANGED auto_disconnect_client
    /\ UNCHANGED bitmapVars
    /\ UNCHANGED server

(* Line 42: sys.stdout = original_stdout *)
ExecRestore(h) ==
    /\ conn[h].pc = "exec_restore"
    /\ sys_stdout' = conn[h].original
    /\ conn' = [conn EXCEPT ![h].pc = "exec_collect", ![h].original = "none"]
    /\ UNCHANGED <<context, auto_disconnect_client>>
    /\ UNCHANGED bitmapVars
    /\ UNCHANGED server

(* Lines 43-44 and 264-270: output = buffer.getvalue() becomes the next    *)
(* entry of outputs; after the last statement the envelope is built        *)
ExecCollect(h) ==
    /\ conn[h].pc = "exec_collect"
    /\ LET outs == Append(conn[h].outputs, conn[h].buffer)
           rec == [conn[h] EXCEPT !.outputs = outs, !.buffer = <<>>]
           next == IF conn[h].i < Len(conn[h].items)
                   THEN [rec EXCEPT !.i = @ + 1, !.pc = "exec_save"]
                   ELSE Returned(rec, Envelope("success", "outputs",
                                               <<>>, outs, "", FALSE))
       IN /\ conn' = Drop([conn EXCEPT ![h] = next], h)
          /\ sys_stdout' = Forget(sys_stdout, h)
    /\ UNCHANGED <<context, auto_disconnect_client>>
    /\ UNCHANGED bitmapVars
    /\ UNCHANGED server

(* Lines 192-210 (and the prints of lines 258, 272): the envelope is       *)
(* printed, serialised and sent; the thread ends                           *)
Respond(h) ==
    /\ conn[h].pc = "respond"
    /\ conn' = WriteTo([conn EXCEPT ![h] = InitConn], sys_stdout, h)
    /\ UNCHANGED <<context, sys_stdout, auto_disconnect_client>>
    /\ UNCHANGED bitmapVars
    /\ UNCHANGED server

DispatchInit ==
    /\ pc = "idle"
    /\ params = [region |-> EmptyRegion, max_width |-> NoneV, max_height |-> NoneV]
    /\ loc = InitLoc
    /\ host = InitHost
    /\ result = NoEnvelope
    /\ ServerInit

(* Requests of every shape, arriving one at a time on either connection *)
DispatchNext ==
    \/ \E h \in Handlers : ReceiveSentinel(h)
    \/ \E h \in Handlers : ReceiveUndecodable(h)
    \/ \E h \in Handlers : ReceiveTyped(h)
    \/ \E h \in Handlers : ReceiveArgs(h)
    \/ \E h \in Handlers : ReceiveCmds(h)
    \/ \E h \in Handlers : ExecuteCommand(h)
    \/ \E h \in Handlers : ExecSave(h)
    \/ \E h \in Handlers : ExecRedirect(h)
    \/ \E h \in Handlers : ExecRun(h)
    \/ \E h \in Handlers : ExecRestore(h)
    \/ \E h \in Handlers : ExecCollect(h)
    \/ \E h \in Handlers : Respond(h)

SpecDispatch == DispatchInit /\ [][DispatchNext]_vars

(* Statement requests on two connections whose handler threads run at the  *)
(* same time                                                               *)
ThreadsNext ==
    \/ \E h \in Handlers : ReceiveTogether(h)
    \/ \E h \in Handlers : ExecuteCommand(h)
    \/ \E h \in Handlers : ExecSave(h)
    \/ \E h \in Handlers : ExecRedirect(h)
    \/ \E h \in Handlers : ExecRun(h)
    \/ \E h \in Handlers : ExecRestore(h)
    \/ \E h \in Handlers : ExecCollect(h)
    \/ \E h \in Handlers : Respond(h)

SpecThreads == DispatchInit /\ [][ThreadsNext]_vars

----------------------------------------------------------------------------
(* The server: run(), shutdown_server and _handle_client *)

(* What a client sends, in units that are never split: an opening and a    *)
(* closing brace, the members "cmds": ["print('a')"], "cmds": ["raise      *)
(* SystemExit"] and "type": "get_gimp_info", the text                      *)
(* disable_auto_disconnect, white space, and a byte that is not UTF-8      *)
Tokens == {"{", "}", "c", "q", "t", "d", " ", "x"}

(* the byte strings of at most MaxWire tokens *)
StringsOf(S) == UNION {[1..n -> S] : n \in 0..MaxWire}

(* str.strip() *)
RECURSIVE StripLeft(_)
StripLeft(s) ==
    IF s # <<>> /\ Head(s) = " " THEN StripLeft(Tail(s)) ELSE s

RECURSIVE StripRight(_)
StripRight(s) ==
    IF s # <<>> /\ s[Len(s)] = " "
    THEN StripRight(SubSeq(s, 1, Len(s) - 1))
    ELSE s

Strip(s) == StripRight(StripLeft(s))

(* buffer.decode('utf-8') raises UnicodeDecodeError *)
Undecodable(s) == \E k \in 1..Len(s) : s[k] = "x"

(* json.loads(text) returns: text is one JSON document, white space        *)
(* around it allowed, nothing else after it                                *)
JsonValid(s) ==
    Strip(s) \in {<<"{", "}">>, <<"{", "c", "}">>, <<"{", "q", "}">>,
                  <<"{", "t", "}">>, <<"{", "b", "}">>, <<"{", "r", "}">>,
                  <<"{", "a", "}">>}

(* Lines 185-191 and 216-222: the text handed to execute_command, as the   *)
(* dispatcher will see it: the sentinel only when the text is exactly it   *)
Parse(s) ==
    IF s = <<"d">> THEN [NoRequest EXCEPT !.raw = "disable_auto_disconnect"]
    ELSE IF ~JsonValid(s) THEN [NoRequest EXCEPT !.raw = "not json"]
    ELSE IF Strip(s) = <<"{", "c", "}">>
         THEN Json("absent", List(<<"print">>), NoArgs)
    ELSE IF Strip(s) = <<"{", "q", "}">>
         THEN Json("absent", List(<<"exit">>), NoArgs)
    ELSE IF Strip(s) = <<"{", "t", "}">>
         THEN Json("get_gimp_info", NoList, NoArgs)
    ELSE IF Strip(s) = <<"{", "b", "}">>
         THEN Json("get_image_bitmap", NoList, NoArgs)
    ELSE IF Strip(s) = <<"{", "r", "}">>
         THEN Json("absent", List(<<"raise_empty">>), NoArgs)
    ELSE IF Strip(s) = <<"{", "a", "}">>
         THEN Json("absent", NoList, Args(<<>>, NoList))
    ELSE Json("absent", NoList, NoArgs)

(* Mutant of Complete: the reader looks for a document at the start of the *)
(* buffer and stops as soon as there is one                                *)
Complete_AnyPrefix(s) ==
    /\ ~Undecodable(s)
    /\ \E k \in 1..Len(s) : JsonValid(SubSeq(s, 1, k))

(* Lines 168-180: the test the read loop makes after each read; true means *)
(* break, false means continue                                             *)
Complete(s) ==
    /\ ~Undecodable(s)
    /\ Strip(s) # <<>>
    /\ JsonValid(s)

(* Lines 195-198: json.dumps of a dict, str() of anything else; every      *)
(* value execute_command returns is a dict                                 *)
ToWire(response) == [format |-> "json", body |-> response]

(* Lines 84-103: run() is called: the flag is set, the signal handlers are *)
(* registered                                                              *)
RunStart ==
    /\ server.pc = "idle"
    /\ server' = [server EXCEPT !.pc = "create", !.running = TRUE]
    /\ UNCHANGED <<conn, context, sys_stdout, auto_disconnect_client>>
    /\ UNCHANGED bitmapVars

(* Lines 95-104: the listening socket is created, bound, listening; or     *)
(* bind raises (the port is taken) and lines 136-150 give up               *)
RunCreate ==
    /\ server.pc = "create"
    /\ \/ server' = [server EXCEPT !.pc = "loop", !.socket = "open"]
       \/ server' = [server EXCEPT !.pc = "returned", !.running = FALSE,
                                   !.socket = "None"]
    /\ conn' = WriteTo(conn, sys_stdout, "accept")
    /\ UNCHANGED <<context, sys_stdout, auto_disconnect_client>>
    /\ UNCHANGED bitmapVars

(* Line 106: while self.running *)
RunLoop ==
    /\ server.pc = "loop"
    /\ server' = IF server.running
                 THEN [server EXCEPT !.pc = "accept"]
                 ELSE [server EXCEPT !.pc = "cleanup", !.seen = TRUE]
    /\ UNCHANGED <<conn, context, sys_stdout, auto_disconnect_client>>
    /\ UNCHANGED bitmapVars

(* Lines 108-112: accept() finds no client within its timeout *)
AcceptTimeout ==
    /\ server.pc = "accept"
    /\ server.socket = "open"
    /\ server' = [server EXCEPT !.pc = "loop"]
    /\ UNCHANGED <<conn, context, sys_stdout, auto_disconnect_client>>
    /\ UNCHANGED bitmapVars

(* Lines 113-115: accept() on the closed socket raises OSError: break *)
AcceptRaises ==
    /\ server.pc = "accept"
    /\ server.socket # "open"
    /\ server' = [server EXCEPT !.pc = "cleanup", !.seen = TRUE]
    /\ UNCHANGED <<conn, context, sys_stdout, auto_disconnect_client>>
    /\ UNCHANGED bitmapVars

(* Lines 113-115: accept() on the open socket raises an OSError other than *)
(* the timeout (the process has no file descriptor left, the connection    *)
(* was aborted before accept returned): break, as for a closed socket; the *)
(* flag is not touched                                                     *)
AcceptFails ==
    /\ server.pc = "accept"
    /\ server.socket = "open"
    /\ server' = [server EXCEPT !.pc = "cleanup"]
    /\ UNCHANGED <<conn, context, sys_stdout, auto_disconnect_client>>
    /\ UNCHANGED bitmapVars

(* Mutant of Spawned: the handler is called in the accept loop itself,     *)
(* which goes on when the handler has returned                             *)
Spawned_Inline(c) == \A h \in Handlers : c[h].pc \in {"idle", "done", "died"}

(* Lines 117-122: the handler runs in a thread of its own; start() returns *)
(* at once, whatever the handlers do                                       *)
Spawned(c) == TRUE

(* Lines 108-109 and 117-122: accept() returns a client that will send     *)
(* stream (and then close its sending side, if eof); the address is        *)
(* printed and the handler thread started in the slot h; of the threads    *)
(* that have ended nothing is kept                                         *)
Accept(h, stream, eof) ==
    /\ server.pc = "accept"
    /\ server.socket = "open"
    /\ Spawned(conn)
    /\ Free(h)
    /\ conn' = WriteTo([u \in Handlers |->
                          IF u = h
                          THEN [InitConn EXCEPT !.pc = "recv",
                                                !.sock = "open",
                                                !.stream = stream,
                                                !.eof = eof]
                          ELSE IF Free(u) THEN InitConn ELSE conn[u]],
                       sys_stdout, "accept")
    /\ server' = [server EXCEPT !.pc = "loop"]
    /\ UNCHANGED <<context, sys_stdout, auto_disconnect_client>>
    /\ UNCHANGED bitmapVars

(* Lines 125-134: the loop is left; the socket is closed if there is one,  *)
(* self.socket becomes None, run() returns its SUCCESS values              *)
RunCleanup ==
    /\ server.pc = "cleanup"
    /\ server' = [server EXCEPT !.pc = "returned", !.socket = "None"]
    /\ conn' = WriteTo(conn, sys_stdout, "accept")
    /\ UNCHANGED <<context, sys_stdout, auto_disconnect_client>>
    /\ UNCHANGED bitmapVars

(* Mutant of ShutdownServer: the flag is cleared, the socket is left as it *)
(* is                                                                      *)
ShutdownServer_FlagOnly ==
    /\ server.pc # "idle"
    /\ server.signals < MaxSignals
    /\ server' = [server EXCEPT !.running = FALSE, !.signals = @ + 1]
    /\ conn' = WriteTo(conn, sys_stdout, "accept")
    /\ UNCHANGED <<context, sys_stdout, auto_disconnect_client>>
    /\ UNCHANGED bitmapVars

(* Mutant of ShutdownServer: the shutdown puts the plugin back into the    *)
(* state of its construction, auto-disconnect included                     *)
ShutdownServer_Reenable ==
    /\ server.pc # "idle"
    /\ server.signals < MaxSignals
    /\ server' = [server EXCEPT !.running = FALSE,
                                !.signals = @ + 1,
                                !.socket = IF @ = "None" THEN "None" ELSE "closed"]
    /\ conn' = WriteTo(conn, sys_stdout, "accept")
    /\ auto_disconnect_client' = TRUE
    /\ UNCHANGED <<context, sys_stdout>>
    /\ UNCHANGED bitmapVars

(* Lines 74-82: SIGTERM or SIGINT is delivered once the handlers are       *)
(* registered.  The handler runs in the main thread, between two steps of  *)
(* run(): it prints, clears the flag and closes the socket if there is one *)
ShutdownServer ==
    /\ server.pc # "idle"
    /\ server.signals < MaxSignals
    /\ server' = [server EXCEPT !.running = FALSE,
                                !.signals = @ + 1,
                                !.socket = IF @ = "None" THEN "None" ELSE "closed"]
    /\ conn' = WriteTo(conn, sys_stdout, "accept")
    /\ UNCHANGED <<context, sys_stdout, auto_disconnect_client>>
    /\ UNCHANGED bitmapVars

(* Lines 159-180: one turn of the read loop.  recv() returns some of the   *)
(* bytes the peer has sent, in the portions the network makes of them, or  *)
(* b'' when the peer has closed its sending side; with nothing to read     *)
(* and the peer still there it does not return.  After a read the whole    *)
(* buffer is tested.                                                       *)
Recv(h) ==
    /\ conn[h].pc = "recv"
    /\ \/ /\ conn[h].stream = <<>>
          /\ conn[h].eof
          /\ conn' = [conn EXCEPT ![h].pc = "after_loop"]
       \/ \E n \in 1..Len(conn[h].stream) :
            LET buffer == conn[h].data \o SubSeq(conn[h].stream, 1, n)
                rest == SubSeq(conn[h].stream, n + 1, Len(conn[h].stream))
            IN conn' = [conn EXCEPT ![h].data = buffer,
                                    ![h].stream = rest,
                                    ![h].pc = IF Complete(buffer)
                                              THEN "after_loop"
                                              ELSE "recv"]
    /\ UNCHANGED <<context, sys_stdout, auto_disconnect_client, server>>
    /\ UNCHANGED bitmapVars

(* The handler thread ends, by return or by an exception nothing catches: *)
(* its locals are released and the bytes it has not read are never read.   *)
(* What stays is what the peer can see: the socket, what was written.      *)
Ended(rec, how, sock, exc) ==
    [InitConn EXCEPT !.pc = how, !.sock = sock, !.raised = exc,
                     !.eof = rec.eof,
                     !.dispatches = rec.dispatches,
                     !.writes = rec.writes,
                     !.wire = rec.wire]

(* Line 160: recv() raises (the peer has reset the connection); nothing    *)
(* in _handle_client catches it, the thread ends                           *)
RecvRaises(h) ==
    /\ conn[h].pc = "recv"
    /\ conn' = [conn EXCEPT ![h] = Ended(conn[h], "died", "unreferenced",
                                         "ConnectionResetError")]
    /\ UNCHANGED <<context, sys_stdout, auto_disconnect_client, server>>
    /\ UNCHANGED bitmapVars

(* Mutant of AfterLoop: a buffer that is not a whole document is dropped   *)
(* like an empty one                                                       *)
AfterLoop_DropIncomplete(h) ==
    /\ conn[h].pc = "after_loop"
    /\ conn' =
         IF ~Complete(conn[h].data)
         THEN WriteTo([conn EXCEPT ![h] = Ended(conn[h], "done", "unreferenced",
                                                "none")],
                      sys_stdout, h)
         ELSE [conn EXCEPT ![h].pc = "received",
                           ![h].request = Parse(conn[h].data),
                           ![h].dispatches = @ + 1]
    /\ UNCHANGED <<context, sys_stdout, auto_disconnect_client, server>>
    /\ UNCHANGED bitmapVars

(* Lines 182-191: with an empty buffer the handler prints and returns;     *)
(* otherwise the buffer is decoded, outside any try, and the text is       *)
(* handed to execute_command                                               *)
AfterLoop(h) ==
    /\ conn[h].pc = "after_loop"
    /\ conn' =
         IF conn[h].data = <<>>
         THEN WriteTo([conn EXCEPT ![h] = Ended(conn[h], "done", "unreferenced",
                                                "none")],
                      sys_stdout, h)
         ELSE IF Undecodable(conn[h].data)
         THEN [conn EXCEPT ![h] = Ended(conn[h], "died", "unreferenced",
                                        "UnicodeDecodeError")]
         ELSE [conn EXCEPT ![h].pc = "received",
                           ![h].request = Parse(conn[h].data),
                           ![h].dispatches = @ + 1]
    /\ UNCHANGED <<context, sys_stdout, auto_disconnect_client, server>>
    /\ UNCHANGED bitmapVars

(* Lines 192-206: execute_command has returned; the envelope is printed,   *)
(* serialised and written whole                                            *)
Send(h) ==
    /\ conn[h].pc = "respond"
    /\ conn' = WriteTo([conn EXCEPT ![h].pc = "close",
                                    ![h].wire = ToWire(conn[h].response),
                                    ![h].writes = @ + 1],
                       sys_stdout, h)
    /\ UNCHANGED <<context, sys_stdout, auto_disconnect_client, server>>
    /\ UNCHANGED bitmapVars

(* Line 205: sendall() raises (the peer is gone); the thread ends *)
SendRaises(h) ==
    /\ conn[h].pc = "respond"
    /\ conn' = WriteTo([conn EXCEPT ![h] = Ended(conn[h], "died", "unreferenced",
                                                 "BrokenPipeError")],
                       sys_stdout, h)
    /\ UNCHANGED <<context, sys_stdout, auto_disconnect_client, server>>
    /\ UNCHANGED bitmapVars

(* Mutant of AfterResponse: with auto-disconnect off the handler goes back *)
(* to the read loop for the next message of the connection                 *)
AfterResponse_KeepReading(rec, auto) ==
    IF auto
    THEN Ended(rec, "done", "closed", "none")
    ELSE [rec EXCEPT !.pc = "recv", !.data = <<>>]

(* Mutant of AfterResponse: the connection is closed whatever the flag *)
AfterResponse_AlwaysClose(rec, auto) ==
    Ended(rec, "done", "closed", "none")

(* Lines 208-210: client.close() if the flag is on; return.  A socket the  *)
(* handler returns without closing is left to the interpreter, which       *)
(* closes it when it frees the object.                                     *)
AfterResponse(rec, auto) ==
    IF auto
    THEN Ended(rec, "done", "closed", "none")
    ELSE Ended(rec, "done", "unreferenced", "none")

(* Mutant of Disconnect: the handler closes every connection but the one   *)
(* whose request was the sentinel, whatever the flag is by then            *)
Disconnect_NotCarrier(h) ==
    /\ conn[h].pc = "close"
    /\ conn' = [conn EXCEPT ![h] = AfterResponse(conn[h], conn[h].route # "sentinel")]
    /\ UNCHANGED <<context, sys_stdout, auto_disconnect_client, server>>
    /\ UNCHANGED bitmapVars

Disconnect(h) ==
    /\ conn[h].pc = "close"
    /\ conn' = [conn EXCEPT ![h] = AfterResponse(conn[h], auto_disconnect_client)]
    /\ UNCHANGED <<context, sys_stdout, auto_disconnect_client, server>>
    /\ UNCHANGED bitmapVars

(* run() has been called and listens *)
Listening == [InitServer EXCEPT !.pc = "loop", !.running = TRUE,
                                !.socket = "open"]

FrameInit ==
    /\ pc = "idle"
    /\ params = [region |-> EmptyRegion, max_width |-> NoneV, max_height |-> NoneV]
    /\ loc = InitLoc
    /\ host = InitHost
    /\ result = NoEnvelope
    /\ conn = [h \in Handlers |-> InitConn]
    /\ context = {}
    /\ sys_stdout = "console"
    /\ auto_disconnect_client = TRUE
    /\ server = Listening

(* the byte strings of the frame reader's cases: every string of at most   *)
(* MaxWire tokens, two documents in a row, a document and white space      *)
Streams ==
    StringsOf(Tokens)
    \cup {<<"{", "c", "}", "{", "c", "}">>, <<"{", "c", "}", " ">>,
          <<" ", "{", "t", "}">>}

(* a client connects while no handler is at work *)
AcceptOne(h) ==
    /\ Quiet
    /\ server.pc = "accept"
    /\ \E stream \in Streams, eof \in BOOLEAN : Accept(h, stream, eof)

(* Connections one after the other, with every byte string, cut into       *)
(* reads in every way                                                      *)
FrameNext ==
    \/ RunLoop
    \/ \E h \in Handlers : AcceptOne(h)
    \/ \E h \in Handlers : Recv(h)
    \/ \E h \in Handlers : RecvRaises(h)
    \/ \E h \in Handlers : AfterLoop(h)
    \/ \E h \in Handlers : ExecuteCommand(h)
    \/ \E h \in Handlers : ExecSave(h)
    \/ \E h \in Handlers : ExecRedirect(h)
    \/ \E h \in Handlers : ExecRun(h)
    \/ \E h \in Handlers : ExecRestore(h)
    \/ \E h \in Handlers : ExecCollect(h)
    \/ \E h \in Handlers : Send(h)
    \/ \E h \in Handlers : SendRaises(h)
    \/ \E h \in Handlers : Disconnect(h)

SpecFrame == FrameInit /\ [][FrameNext]_vars

(* the clients of the whole server: one that connects and closes or stays  *)
(* silent, ones that send a request and wait (statements, a statement that *)
(* ends the thread, a handler call), ones that send half a request or      *)
(* bytes that are not UTF-8 and close their sending side                   *)
Clients ==
    {[stream |-> <<>>, eof |-> e] : e \in BOOLEAN}
    \cup {[stream |-> <<"{", m, "}">>, eof |-> FALSE] : m \in {"c", "q", "t"}}
    \cup {[stream |-> st, eof |-> TRUE] : st \in {<<"{", "c">>, <<"x">>}}

(* a client connects, whatever the handlers of the other connections do *)
AcceptAny(h) ==
    /\ server.pc = "accept"
    /\ \E c \in Clients : Accept(h, c.stream, c.eof)

(* the steps of the handler thread of slot h *)
HandlerStep(h) ==
    \/ Recv(h)
    \/ RecvRaises(h)
    \/ AfterLoop(h)
    \/ ExecuteCommand(h)
    \/ ExecSave(h)
    \/ ExecRedirect(h)
    \/ ExecRun(h)
    \/ ExecRestore(h)
    \/ ExecCollect(h)
    \/ Send(h)
    \/ SendRaises(h)
    \/ Disconnect(h)

(* The whole server: run() from its call to its return, the signals, the   *)
(* handler threads running at the same time                                *)
ServerNext ==
    \/ RunStart
    \/ RunCreate
    \/ RunLoop
    \/ AcceptTimeout
    \/ AcceptRaises
    \/ AcceptFails
    \/ \E h \in Handlers : AcceptAny(h)
    \/ RunCleanup
    \/ ShutdownServer
    \/ \E h \in Handlers : Recv(h)
    \/ \E h \in Handlers : RecvRaises(h)
    \/ \E h \in Handlers : AfterLoop(h)
    \/ \E h \in Handlers : ExecuteCommand(h)
    \/ \E h \in Handlers : ExecSave(h)
    \/ \E h \in Handlers : ExecRedirect(h)
    \/ \E h \in Handlers : ExecRun(h)
    \/ \E h \in Handlers : ExecRestore(h)
    \/ \E h \in Handlers : ExecCollect(h)
    \/ \E h \in Handlers : Send(h)
    \/ \E h \in Handlers : SendRaises(h)
    \/ \E h \in Handlers : Disconnect(h)

SpecServer == DispatchInit /\ [][ServerNext]_vars

----------------------------------------------------------------------------
(* The server with the bitmap handler behind it: a get_image_bitmap        *)
(* request runs lines 284-614 on its params, and what the handler returns  *)
(* is what execute_command returns and _handle_client writes               *)

(* The clients: one that connects and closes, and ones that send the       *)
(* members "cmds": ["print('a')"], "cmds": ["raise Exception()"],          *)
(* "type": "get_gimp_info", "type": "get_image_bitmap" (b, with params),   *)
(* "params": {"args": []}, no member at all, half a document, the text     *)
(* disable_auto_disconnect.  The ones that send a whole document wait for  *)
(* the answer, the others close their sending side.                        *)
EnvelopeClients ==
    {[stream |-> <<"{", e, "}">>, eof |-> FALSE] : e \in {"c", "r", "t", "b", "a"}}
    \cup {[stream |-> <<"{", "}">>, eof |-> FALSE]}
    \cup {[stream |-> st, eof |-> TRUE] : st \in {<<>>, <<"{", "c">>, <<"d">>}}

(* the connections come one after the other: the next one when the        *)
(* handler of the last is done                                             *)
LoopQuiet ==
    /\ Quiet
    /\ RunLoop

(* one of them connects; its handler thread is h1 *)
AcceptClient ==
    /\ Quiet
    /\ server.pc = "accept"
    /\ \E c \in EnvelopeClients : Accept("h1", c.stream, c.eof)

(* Lines 223-225: the request names the bitmap handler; line 290 prints *)
CallBitmap(h) ==
    /\ conn[h].pc = "received"
    /\ Route(conn[h].request) = "get_image_bitmap"
    /\ pc = "idle"
    /\ conn' = WriteTo([conn EXCEPT ![h].pc = "handler",
                                    ![h].route = "get_image_bitmap"],
                       sys_stdout, h)
    /\ UNCHANGED <<context, sys_stdout, auto_disconnect_client, server>>
    /\ UNCHANGED bitmapVars

(* a handler thread is inside _get_current_image_bitmap *)
InBitmapHandler == \E h \in Handlers : conn[h].pc = "handler"

(* the params of the message, as lines 292-297 find them *)
BitmapAnyRegion ==
    /\ InBitmapHandler
    /\ RequestAnyRegion

BitmapRegion ==
    /\ InBitmapHandler
    /\ RequestRegion

BitmapScaled ==
    /\ InBitmapHandler
    /\ RequestScaled

(* Lines 574-614 seen from line 225: the keys of the dict the handler      *)
(* hands back, or of the one lines 275-282 make of its exception           *)
FromBitmap(env) ==
    Envelope(env.status,
             IF env.status = "success" THEN "handler" ELSE "none",
             <<>>, <<>>, env.error.msg, env.traceback)

(* Line 225: return self._get_current_image_bitmap(params) *)
ReturnBitmap(h) ==
    /\ conn[h].pc = "handler"
    /\ pc = "returned"
    /\ conn' = [conn EXCEPT ![h] = Returned(conn[h], FromBitmap(result))]
    /\ pc' = "idle"
    /\ params' = [region |-> EmptyRegion, max_width |-> NoneV, max_height |-> NoneV]
    /\ loc' = InitLoc
    /\ host' = InitHost
    /\ result' = NoEnvelope
    /\ UNCHANGED <<context, sys_stdout, auto_disconnect_client, server>>

(* Lines 226-273: every other request *)
ExecuteOther(h) ==
    /\ Route(conn[h].request) # "get_image_bitmap"
    /\ ExecuteCommand(h)

EnvelopeNext ==
    \/ LoopQuiet
    \/ AcceptClient
    \/ \E h \in Handlers : Recv(h)
    \/ \E h \in Handlers : RecvRaises(h)
    \/ \E h \in Handlers : AfterLoop(h)
    \/ \E h \in Handlers : ExecuteOther(h)
    \/ \E h \in Handlers : ExecSave(h)
    \/ \E h \in Handlers : ExecRedirect(h)
    \/ \E h \in Handlers : ExecRun(h)
    \/ \E h \in Handlers : ExecRestore(h)
    \/ \E h \in Handlers : ExecCollect(h)
    \/ \E h \in Handlers : CallBitmap(h)
    \/ BitmapAnyRegion
    \/ BitmapRegion
    \/ BitmapScaled
    \/ Validate
    \/ ResolveSource
    \/ CheckRegion
    \/ CropNew
    \/ CropSelect
    \/ CropCopy
    \/ CropClearSelection
    \/ ScaleTarget
    \/ Duplicate
    \/ Scale
    \/ Mkstemp
    \/ ExportLayers
    \/ ExportPrimary
    \/ ExportFallback
    \/ ExportPdb
    \/ ReadBack
    \/ Finally
    \/ \E h \in Handlers : ReturnBitmap(h)
    \/ \E h \in Handlers : Send(h)
    \/ \E h \in Handlers : SendRaises(h)
    \/ \E h \in Handlers : Disconnect(h)

SpecEnvelope == FrameInit /\ [][EnvelopeNext]_vars

(* the clients of the server that is shut down: one that connects and may  *)
(* stay silent, one that asks for get_gimp_info                            *)
ShutdownClients == {<<>>, <<"{", "t", "}">>}

(* one of them connects *)
AcceptSome(h) ==
    /\ server.pc = "accept"
    /\ \E stream \in ShutdownClients, eof \in BOOLEAN : Accept(h, stream, eof)

(* the steps of run() *)
RunStep ==
    \/ RunStart
    \/ RunCreate
    \/ RunLoop
    \/ AcceptTimeout
    \/ AcceptRaises
    \/ AcceptFails
    \/ \E h \in Handlers : AcceptSome(h)
    \/ RunCleanup

(* The server from the call of run() to its return, the signals arriving   *)
(* at any moment after the registration of their handler                   *)
ShutdownNext ==
    \/ RunStart
    \/ RunCreate
    \/ RunLoop
    \/ AcceptTimeout
    \/ AcceptRaises
    \/ AcceptFails
    \/ \E h \in Handlers : AcceptSome(h)
    \/ RunCleanup
    \/ ShutdownServer
    \/ \E h \in Handlers : Recv(h)
    \/ \E h \in Handlers : RecvRaises(h)
    \/ \E h \in Handlers : AfterLoop(h)
    \/ \E h \in Handlers : ExecuteCommand(h)
    \/ \E h \in Handlers : Send(h)
    \/ \E h \in Handlers : SendRaises(h)
    \/ \E h \in Handlers : Disconnect(h)

(* run() is a thread that runs: accept() returns within its timeout of one *)
(* second (line 100), nothing else in the loop waits                       *)
SpecShutdown == DispatchInit /\ [][ShutdownNext]_vars /\ WF_vars(RunStep)

----------------------------------------------------------------------------
(* Vocabulary of the properties *)

CoordKeys == {"origin_x", "origin_y", "width", "height"}

(* the key is missing from the region dict or holds None *)
Missing(region, k) == region[k].t \in {"absent", "NoneType"}

Negative(region, k) == region[k].t = "int" /\ region[k].v < 0

WrongType(region, k) == region[k].t \notin {"absent", "NoneType", "int"}

Offending(region, k) == Negative(region, k) \/ WrongType(region, k)

(* no key before position i of the validation order is offending *)
NoEarlierOffence(region, i) ==
    \A j \in 1..(i - 1) : ~Offending(region, KeyOrder[j])

PassesTypeAndSign(region) == \A k \in RegionKeys : ~Offending(region, k)

LacksCoordinate(region) == \E k \in CoordKeys : Missing(region, k)

PartialRegion(region) ==
    /\ \E k \in CoordKeys : ~Missing(region, k)
    /\ \E k \in CoordKeys : Missing(region, k)

(* Gimp.get_images() returned an image and its size was read *)
SourceOpen == loc.orig_img_width > 0

(* the handler has made no host call that allocates or mutates anything *)
Untouched ==
    /\ host.created = {}
    /\ host.selects = 0
    /\ ~host.selection
    /\ host.temp_allocs = 0
    /\ ~host.temp_exists
    /\ host.attempts = <<>>
    /\ \A i \in Images : host.deletes[i] = 0 /\ host.scales[i] = 0

----------------------------------------------------------------------------
(* C1: when the call returns, every working image the call created (the    *)
(* region crop, the scaled duplicate) has been deleted exactly once, and   *)
(* none that was not created has been deleted.                             *)
C1_WorkingImagesReleasedOnce ==
    pc = "returned" =>
        \A i \in {"crop", "dup"} :
            host.deletes[i] = IF i \in host.created THEN 1 ELSE 0

(* C2: when scale() raised, the call returns with the duplicate deleted    *)
(* exactly once and an error envelope whose text carries the source size,  *)
(* the target size and the underlying cause of the failed transform.       *)
C2_ScalingFailureReleasesDuplicate ==
    (pc = "returned" /\ host.scale_raised) =>
        /\ host.deletes["dup"] = 1
        /\ result.status = "error"
        /\ result.error.msg = "Processing error"
        /\ result.error.causes = <<"Failed to scale image", "scale_error">>
        /\ result.error.nums = <<host.size[loc.working_image][1],
                                 host.size[loc.working_image][2],
                                 loc.target_width, loc.target_height>>
        /\ <<loc.target_width, loc.target_height>> # host.size[loc.working_image]

C2_Witness ==
    /\ pc = "returned"
    /\ host.scale_raised
    /\ loc.working_image = "orig"
    /\ "dup" \in host.created

(* C3: the source image is never deleted and never scaled, the region crop *)
(* is never scaled: delete() reaches only a crop or a duplicate, scale()   *)
(* only a duplicate, in every state of every invocation.                   *)
C3_SourceNeverDeletedNorScaled ==
    /\ host.deletes["orig"] = 0
    /\ host.scales["orig"] = 0
    /\ host.scales["crop"] = 0
    /\ "orig" \notin host.created

C3_Witness ==
    /\ pc = "returned"
    /\ result.status = "success"
    /\ loc.working_image = "orig"
    /\ host.scales["dup"] = 1
    /\ host.deletes["dup"] = 1

(* C4: once the temporary file was allocated, it no longer exists when the *)
(* call returns, whatever the export and the read-back did.                *)
C4_TempFileRemoved ==
    (pc = "returned" /\ host.temp_allocs > 0) => ~host.temp_exists

C4_Witness ==
    /\ pc = "returned"
    /\ host.temp_allocs = 1
    /\ loc.pending = "OSError"
    /\ Len(host.attempts) = 3

ExportErrors == {"PNG export procedure not found", "All export methods failed"}

(* C5 as stated: every export error is returned only after at least one    *)
(* alternate export procedure was tried, and lists every attempt's failure *)
C5_Original ==
    (pc = "returned" /\ result.error.msg \in ExportErrors) =>
        /\ Len(host.attempts) >= 2
        /\ Len(result.error.causes) = Len(host.attempts)

(* C5, amended: when the primary export procedure was found and running it *)
(* raised, Gimp.file_save is tried before the call returns, and the error  *)
(* "All export methods failed" lists the failure of every attempt made;    *)
(* a missing file-png-export procedure is reported with no attempt at all. *)
C5_FallbackAfterRaisingPrimary ==
    pc = "returned" =>
        /\ (loc.errors # <<>>) =>
              /\ Len(host.attempts) >= 2
              /\ host.attempts[1] = "file-png-export"
              /\ host.attempts[2] = "Gimp.file_save"
        /\ (result.error.msg = "All export methods failed") =>
              /\ loc.errors # <<>>
              /\ result.error.causes = loc.errors
              /\ Len(result.error.causes) = Len(host.attempts)
        /\ (result.error.msg = "PNG export procedure not found") =>
              host.attempts = <<>>

C5_Witness ==
    /\ pc = "returned"
    /\ result.error.msg = "All export methods failed"
    /\ host.attempts = <<"file-png-export", "Gimp.file_save", "gimp-file-save">>

(* C6 as stated: every region dict lacking one of the four coordinates     *)
(* fails with the "all parameters are required" error, nothing touched     *)
C6_Original ==
    (pc = "returned" /\ LacksCoordinate(params.region)) =>
        /\ result = ErrorEnvelope(RequiredError)
        /\ Untouched

(* C6, amended: a region dict that gives some but not all of the four      *)
(* coordinates, and whose values pass the type and sign validation, fails  *)
(* with the "all parameters are required" error when an image is open (and *)
(* with the "No images" error otherwise), before any image is touched; a   *)
(* region dict that gives none of the four is not rejected for that.       *)
C6_IncompleteRegionRejected ==
    (pc = "returned" /\ PassesTypeAndSign(params.region)) =>
        /\ (PartialRegion(params.region) /\ SourceOpen) =>
              /\ result = ErrorEnvelope(RequiredError)
              /\ Untouched
        /\ (PartialRegion(params.region) /\ ~SourceOpen) =>
              /\ result.error.msg = "No images are currently open in GIMP"
              /\ Untouched
        /\ (~PartialRegion(params.region)) => result.error # RequiredError

C6_Witness ==
    /\ pc = "returned"
    /\ Missing(params.region, "width")
    /\ ~Missing(params.region, "origin_y")
    /\ ~Missing(params.region, "max_width")
    /\ result = ErrorEnvelope(RequiredError)

(* C7 as stated: every key holding a negative value is named by the error, *)
(* whatever the other keys hold                                            *)
C7_Original ==
    pc = "returned" =>
        \A k \in RegionKeys :
            Negative(params.region, k) =>
                (result.status = "error" /\ result.error.key = k)

(* C7, amended: a region with a negative int always fails validation,      *)
(* the error naming the first offending (wrong-typed or negative) key in   *)
(* validation order; a negative key is the one named, with "must be        *)
(* non-negative" and its value, exactly when no earlier key is offending.  *)
C7_FirstNegativeKeyNamed ==
    pc = "returned" =>
        \A i \in 1..Len(KeyOrder) :
            Negative(params.region, KeyOrder[i]) =>
                /\ result.status = "error"
                /\ result.error.msg \in {"must be of type", "must be non-negative"}
                /\ Offending(params.region, result.error.key)
                /\ (NoEarlierOffence(params.region, i) <=>
                       result = ErrorEnvelope(
                           NegativeErrorFor(KeyOrder[i], params.region[KeyOrder[i]])))

C7_Witness ==
    /\ pc = "returned"
    /\ Negative(params.region, "width")
    /\ WrongType(params.region, "max_height")
    /\ result.error.key = "width"
    /\ result.error.msg = "must be non-negative"

(* C8 as stated: every key holding a non-int value makes the call fail     *)
(* with an error naming int and the actual type                            *)
C8_Original ==
    pc = "returned" =>
        \A k \in RegionKeys :
            WrongType(params.region, k) =>
                /\ result.status = "error"
                /\ result.error.expected = "int"
                /\ result.error.actual = params.region[k].t

(* C8, amended: a region with a wrong-typed value always fails validation; *)
(* the error names that key, the expected type int and the actual type     *)
(* exactly when no earlier key in validation order is wrong-typed or       *)
(* negative, and otherwise it is the error of the first offending key.     *)
C8_FirstWrongTypeKeyNamed ==
    pc = "returned" =>
        \A i \in 1..Len(KeyOrder) :
            WrongType(params.region, KeyOrder[i]) =>
                /\ result.status = "error"
                /\ result.error.msg \in {"must be of type", "must be non-negative"}
                /\ Offending(params.region, result.error.key)
                /\ (NoEarlierOffence(params.region, i) <=>
                       result = ErrorEnvelope(
                           TypeErrorFor(KeyOrder[i], params.region[KeyOrder[i]])))

C8_Witness ==
    /\ pc = "returned"
    /\ WrongType(params.region, "height")
    /\ Negative(params.region, "max_width")
    /\ result.error.key = "height"
    /\ result.error.expected = "int"
    /\ result.error.actual = "str"

(* C9: with an image of size (W,H) open and a fully specified region of    *)
(* non-negative integers (x,y,w,h): if x+w > W or y+h > H the call fails   *)
(* with "Region bounds invalid" carrying W, H, x, y, w and h; if x+w <= W  *)
(* and y+h <= H the call does not end in that error.                       *)
C9_BoundsCheck ==
    (/\ pc = "returned"
     /\ PassesTypeAndSign(params.region)
     /\ ~LacksCoordinate(params.region)
     /\ SourceOpen) =>
        LET x == params.region["origin_x"].v
            y == params.region["origin_y"].v
            w == params.region["width"].v
            h == params.region["height"].v
            W == host.size["orig"][1]
            H == host.size["orig"][2]
        IN /\ (x + w > W \/ y + h > H) =>
                 result = ErrorEnvelope(
                     Err("Region bounds invalid", "", "", "", <<W, H, x, y, w, h>>, <<>>))
           /\ (x + w <= W /\ y + h <= H) =>
                 result.error.msg # "Region bounds invalid"

C9_Witness ==
    /\ pc = "returned"
    /\ result.error.msg = "Region bounds invalid"
    /\ params.region["origin_x"].v + params.region["width"].v <= host.size["orig"][1]
    /\ params.region["origin_y"].v + params.region["height"].v > host.size["orig"][2]
    /\ params.region["origin_y"].v <= host.size["orig"][2]

ValidationErrors ==
    {"must be of type", "must be non-negative",
     "For region selection, all parameters are required", "Region bounds invalid"}

(* C10: whenever the call returns a parameter validation error (wrong      *)
(* type, negative value, incomplete region, out-of-bounds region), it has  *)
(* created no image, set no selection, made no duplicate, allocated no     *)
(* temporary file and called no export, delete or scale.                   *)
C10_ValidationBeforeAllocation ==
    (pc = "returned" /\ result.error.msg \in ValidationErrors) => Untouched

C10_Witness ==
    /\ pc = "returned"
    /\ result.error.msg = "Region bounds invalid"
    /\ Untouched

(* C11: when Gimp.get_images() reports no open image, every request whose  *)
(* region passed the type and sign validation returns the error envelope   *)
(* "No images are currently open in GIMP", and the call has created no     *)
(* image and allocated no temporary file.                                  *)
C11_NoImagesError ==
    (pc = "returned" /\ ValidateRegion(params.region) = NoError /\ ~SourceOpen) =>
        /\ result = ErrorEnvelope(Err("No images are currently open in GIMP",
                                      "", "", "", <<>>, <<>>))
        /\ Untouched

C11_Witness ==
    /\ pc = "returned"
    /\ ~SourceOpen
    /\ ~LacksCoordinate(params.region)
    /\ params.region["max_width"].t = "int"
    /\ result.error.msg = "No images are currently open in GIMP"

----------------------------------------------------------------------------
(* Vocabulary of the scaling properties *)

(* the request's bounds and the working image's size, as the scaling stage *)
(* found them                                                              *)
FitInput ==
    <<host.size[loc.working_image][1], host.size[loc.working_image][2],
      loc.max_width.v, loc.max_height.v>>

Target == <<loc.target_width, loc.target_height>>

(* line 419 onwards has run: the target size has been computed *)
TargetComputed == pc \in {"duplicate", "scale", "mkstemp"}

(* the fitting as the specification words it: exact quotients, floored *)
FloorFit(cw, ch, mw, mh) ==
    IF cw * mh > mw * ch
    THEN <<mw, (mw * ch) \div cw>>
    ELSE <<(mh * cw) \div ch, mh>>

(* C12 as stated: for positive sizes and bounds the target is              *)
(* (mw, floor(mw*ch/cw)) when cw*mh > mw*ch and (floor(mh*cw/ch), mh)      *)
(* otherwise, so that it stays within the bounds and meets one of them.    *)
C12_FloorFormula ==
    (TargetComputed /\ ~IsNone(loc.max_width)) =>
        /\ Target = FloorFit(FitInput[1], FitInput[2], FitInput[3], FitInput[4])
        /\ loc.target_width <= loc.max_width.v
        /\ loc.target_height <= loc.max_height.v
        /\ loc.target_width = loc.max_width.v \/ loc.target_height = loc.max_height.v

(* C13: the target is (800,450) for 1920x1080 into 800x800, (450,600) for  *)
(* 600x800 into 1000x600 and (960,540) for 1920x1080 into 960x540.         *)
C13_TestTargets ==
    TargetComputed =>
        /\ (FitInput = <<1920, 1080, 800, 800>>) => Target = <<800, 450>>
        /\ (FitInput = <<600, 800, 1000, 600>>) => Target = <<450, 600>>
        /\ (FitInput = <<1920, 1080, 960, 540>>) => Target = <<960, 540>>

C13_Witness ==
    /\ pc = "duplicate"
    /\ FitInput = <<1920, 1080, 960, 540>>
    /\ Target = <<960, 540>>

Warned == "Large scaling operation" \in host.warnings

(* line 468 has been reached: scale() returned or raised *)
ScaleCalled == host.scales["dup"] > 0 \/ host.scale_raised

(* C14: the warning is there exactly when scale() was reached with a       *)
(* target area above 4 times the current area (not at 4 times, as for      *)
(* 1920x1080 to 3840x2160; at 16 times it is); warned or not, a scale()    *)
(* that returns leaves the duplicate at the target size with the pipeline  *)
(* going on, and a scale() that raises gives the scaling error.            *)
C14_LargeScalingWarning ==
    /\ Warned <=>
          /\ ScaleCalled
          /\ loc.target_width * loc.target_height
                > 4 * (loc.current_width * loc.current_height)
    /\ (FitInput = <<1920, 1080, 3840, 2160>>) => ~Warned
    /\ (FitInput = <<1920, 1080, 7680, 4320>> /\ ScaleCalled) => Warned
    /\ (host.scales["dup"] > 0) =>
          /\ pc = "mkstemp"
          /\ result = NoEnvelope
          /\ host.size["dup"] = Target
    /\ host.scale_raised =>
          /\ pc = "returned"
          /\ result = ProcessingError(ScaleError(loc))

C14_Witness ==
    /\ Warned
    /\ host.scales["dup"] = 1
    /\ FitInput = <<1920, 1080, 7680, 4320>>
    /\ Target = <<7680, 4320>>

(* the pair of bounds the request asks for, read from the request itself *)
RequestedBounds ==
    LET rw == Get(params.region, "max_width")
        rh == Get(params.region, "max_height")
    IN IF ~IsNone(rw) /\ ~IsNone(rh) THEN <<rw, rh>>
       ELSE IF ~IsNone(params.max_width) /\ ~IsNone(params.max_height)
            THEN <<params.max_width, params.max_height>>
            ELSE <<NoneV, NoneV>>

(* C15: once the scaling stage has run, the target is the fit into the     *)
(* region-level pair when the region gives both, else into the top-level   *)
(* pair when the request gives both (a zero height on either side making   *)
(* the fit divide by zero); with neither pair there is no scale target:    *)
(* the target is the current size, no duplicate is made, scale() is not    *)
(* called.                                                                 *)
C15_ScaleTargetPrecedence ==
    (loc.final_image # "None") =>
        LET b == RequestedBounds
            cw == host.size[loc.working_image][1]
            ch == host.size[loc.working_image][2]
        IN IF IsNone(b[1])
           THEN /\ Target = <<cw, ch>>
                /\ "dup" \notin host.created
                /\ \A i \in Images : host.scales[i] = 0
                /\ ~host.scale_raised
           ELSE IF ch = 0 \/ b[2].v = 0
                THEN /\ result = DispatcherError(ZeroDivisionError)
                     /\ "dup" \notin host.created
                ELSE Target = CenterInside(cw, ch, b[1].v, b[2].v)

C15_Witness ==
    /\ pc = "returned"
    /\ result.status = "success"
    /\ params.region["max_width"] = IntV(1)
    /\ params.region["max_height"] = IntV(1)
    /\ params.max_width = IntV(0)
    /\ params.max_height = IntV(1)
    /\ host.size["orig"] = <<2, 2>>
    /\ host.scales["dup"] = 1
    /\ host.size["dup"] = <<1, 1>>

----------------------------------------------------------------------------
(* Properties of the dispatcher *)

(* execute_command has chosen its branch for the request of handler h *)
Routed(h) == conn[h].pc \notin {"idle", "received"}

Answered(h) == conn[h].pc = "respond"

(* C16: execute_command selects its branch by this precedence, for every   *)
(* message: the literal disable_auto_disconnect is answered with the fixed *)
(* success envelope (and clears the flag); a "type" naming one of the four *)
(* handlers goes to that handler, whether or not "cmds" or params.args are *)
(* present too, and nothing is executed or evaluated; otherwise "cmds" is  *)
(* run as statements; otherwise params.args is used.                       *)
C16_RoutingPrecedence ==
    \A h \in Handlers :
        Routed(h) =>
            LET c == conn[h]
                m == c.request
            IN /\ m.raw = "disable_auto_disconnect" =>
                    /\ c.route = "sentinel"
                    /\ c.response = Envelope("success", "OK", <<>>, <<>>, "", FALSE)
                    /\ ~auto_disconnect_client
                    /\ c.mode = "none"
               /\ (m.raw = "json" /\ m.type \in KnownTypes) =>
                    /\ c.route = m.type
                    /\ c.mode = "none"
                    /\ c.response.results \in {"handler", "none"}
                    /\ c.raised \in {"none", "ZeroDivisionError"}
               /\ (m.raw = "json" /\ m.type \notin KnownTypes /\ m.cmds.present) =>
                    /\ c.route = "cmds"
                    /\ c.mode = "python-fu-exec"
                    /\ c.items = m.cmds.items
               /\ (m.raw = "json" /\ m.type \notin KnownTypes /\ ~m.cmds.present) =>
                    /\ c.route = "args"
                    /\ ~m.args.present => c.raised = "KeyError"
                    /\ (m.args.present /\ m.args.head # <<>>) =>
                          /\ c.mode = m.args.head[1]
                          /\ c.items = m.args.rest.items

(* a request naming a handler and carrying both "cmds" and params.args has *)
(* been answered by the handler                                            *)
C16_Witness ==
    \E h \in Handlers :
        /\ Answered(h)
        /\ conn[h].request.type = "get_gimp_info"
        /\ conn[h].request.cmds.present
        /\ conn[h].request.args.present
        /\ conn[h].route = "get_gimp_info"
        /\ conn[h].response.status = "success"

(* the request selects a mode and gives it nothing to run: a = [mode] or   *)
(* a = [mode, []]                                                          *)
EmptyArguments(m) ==
    /\ m.raw = "json"
    /\ m.type \notin KnownTypes
    /\ \/ m.cmds.present /\ m.cmds.items = <<>>
       \/ /\ ~m.cmds.present
          /\ m.args.present
          /\ m.args.head # <<>>
          /\ (m.args.rest.present => m.args.rest.items = <<>>)

(* the results of a request that ran nothing: the sentinels of lines 256   *)
(* and 261, or the empty list                                              *)
NoOpResult(e) ==
    \/ e.results \in {"[NULL]", "OK"}
    \/ e.results = "values" /\ e.values = <<>>
    \/ e.results = "outputs" /\ e.outputs = <<>>

(* C17: a request with an empty argument list under either mode is         *)
(* answered with status "success" and a no-op result, never with an error  *)
(* envelope.                                                               *)
C17_EmptyArgumentsSucceed ==
    \A h \in Handlers :
        (Answered(h) /\ EmptyArguments(conn[h].request)) =>
            /\ conn[h].response.status = "success"
            /\ NoOpResult(conn[h].response)

(* C18: every exception raised during routing, statement execution or      *)
(* expression evaluation is caught in execute_command and answered with    *)
(* an envelope of status "error" whose error and traceback are not empty;  *)
(* none ends the handler thread.                                           *)
C18_ExceptionsAnswered ==
    \A h \in Handlers :
        conn[h].raised # "none" =>
            /\ Answered(h)
            /\ conn[h].response.status = "error"
            /\ conn[h].response.error # ""
            /\ conn[h].response.traceback

(* the request of handler h reads the name x: by an expression of          *)
(* python-fu-eval or by a statement of a list in which no statement        *)
(* raises of itself                                                        *)
ReadsName(h) ==
    \/ /\ conn[h].mode = "python-fu-eval"
       /\ \E k \in 1..Len(conn[h].items) : conn[h].items[k] = "name"
    \/ /\ conn[h].mode = "python-fu-exec"
       /\ \E k \in 1..Len(conn[h].items) : conn[h].items[k] = "use"
       /\ \A k \in 1..Len(conn[h].items) :
             conn[h].items[k] \in {"print", "bind", "use"}

(* C19: statements and expressions run against one process-wide           *)
(* persistent context: a name bound by a statement of one request is       *)
(* visible to every statement and every expression of a later request, on  *)
(* the same or on another connection.  Requests arrive one at a time       *)
(* here, so that a name found bound when a request is answered was bound   *)
(* before the request read it, and no statement unbinds a name.            *)
C19_ContextShared ==
    \A h \in Handlers :
        (Answered(h) /\ ReadsName(h) /\ "x" \in context) =>
            /\ conn[h].raised = "none"
            /\ conn[h].response.status = "success"

(* what statement k of the request of handler h prints, as the content of  *)
(* a buffer: one line written by h for print(...) and print(x), nothing    *)
(* for x = 1                                                               *)
Printed(h, k) ==
    IF conn[h].items[k] \in {"print", "use"} THEN <<h>> ELSE <<>>

(* C20: in statement execution, entry i of the results is exactly what     *)
(* statement i printed, in input order, also while the handler of another  *)
(* connection executes statements: no output of one request appears in,    *)
(* or is missing from, the results of another.                             *)
C20_OutputsPerStatement ==
    \A h \in Handlers :
        (Answered(h) /\ conn[h].response.results = "outputs") =>
            /\ Len(conn[h].response.outputs) = Len(conn[h].items)
            /\ \A k \in 1..Len(conn[h].items) :
                  conn[h].response.outputs[k] = Printed(h, k)

----------------------------------------------------------------------------
(* Properties of the fitting, continued *)

----------------------------------------------------------------------------
(* Properties of the dispatcher, continued *)

----------------------------------------------------------------------------
(* Properties of the server *)

(* the handler h has written its response and stands before line 208 *)
ResponseWritten(h) == conn[h].pc = "close"

(* the handler h has returned after writing a response *)
Served(h) == conn[h].pc = "done" /\ conn[h].writes = 1

C22_CloseAfterResponse ==
    /\ [][\A h \in Handlers :
            (ResponseWritten(h) /\ ~ResponseWritten(h)') =>
                /\ Served(h)'
                /\ conn'[h].wire = conn[h].wire
                /\ conn'[h].sock = IF auto_disconnect_client
                                   THEN "closed" ELSE "unreferenced"]_vars
    /\ [](\A h \in Handlers : conn[h].sock = "closed" => Served(h))

(* with auto-disconnect on, a connection has been answered and closed *)
C22_Witness ==
    \E h \in Handlers :
        /\ auto_disconnect_client
        /\ Served(h)
        /\ conn[h].wire.format = "json"
        /\ conn[h].sock = "closed"

(* the bytes are one JSON document (white space around it allowed) *)
WholeDocument(s) == ~Undecodable(s) /\ Strip(s) # <<>> /\ JsonValid(s)

(* the handler h is between the read loop and its return *)
PastLoop(h) ==
    conn[h].pc \in {"after_loop", "received", "exec_save", "exec_redirect",
                    "exec_run", "exec_restore", "exec_collect", "respond",
                    "close"}

(* the read loop of h was left by the zero-length read: the peer closed    *)
(* before the bytes made a whole document                                  *)
ClosedEarly(h) == PastLoop(h) /\ ~WholeDocument(conn[h].data)

(* C23 as stated: when the peer closes before the bytes form a complete    *)
(* message, nothing is dispatched and nothing is written.                  *)
C23_Original ==
    \A h \in Handlers :
        ClosedEarly(h) => conn[h].dispatches = 0 /\ conn[h].writes = 0

(* C23, amended: when the peer closes before the bytes form a complete     *)
(* message, an empty buffer makes the handler return, and bytes that are   *)
(* not UTF-8 end it by an exception, without a dispatch and without a      *)
(* response; any other buffer is dispatched as it is, once, and answered:  *)
(* the sentinel text with the success envelope, every other text with the  *)
(* error envelope of the JSON decoder.                                     *)
C23_PeerClosesEarly ==
    /\ [][\A h \in Handlers :
            (ClosedEarly(h) /\ conn[h].pc = "after_loop" /\ conn'[h] # conn[h]) =>
                IF conn[h].data = <<>>
                THEN /\ conn'[h].pc = "done"
                     /\ conn'[h].dispatches = 0
                     /\ conn'[h].writes = 0
                     /\ conn'[h].sock = "unreferenced"
                ELSE IF Undecodable(conn[h].data)
                THEN /\ conn'[h].pc = "died"
                     /\ conn'[h].raised = "UnicodeDecodeError"
                     /\ conn'[h].dispatches = 0
                     /\ conn'[h].writes = 0
                ELSE /\ conn'[h].pc = "received"
                     /\ conn'[h].dispatches = 1]_vars
    /\ [](\A h \in Handlers :
            (ClosedEarly(h) /\ conn[h].pc \in {"respond", "close"}) =>
                /\ conn[h].dispatches = 1
                /\ IF conn[h].data = <<"d">>
                   THEN conn[h].response =
                            Envelope("success", "OK", <<>>, <<>>, "", FALSE)
                   ELSE /\ conn[h].response.status = "error"
                        /\ conn[h].raised = "JSONDecodeError"
                /\ conn[h].pc = "close" =>
                      conn[h].wire = [format |-> "json", body |-> conn[h].response])

(* the peer sent half a document and closed; the handler has answered with *)
(* the error envelope                                                      *)
C23_Witness ==
    \E h \in Handlers :
        /\ conn[h].pc = "close"
        /\ conn[h].data = <<"{", "c">>
        /\ conn[h].wire.body.status = "error"
        /\ conn[h].writes = 1

(* the bytes begin with a JSON document *)
HasDocumentPrefix(s) ==
    /\ ~Undecodable(s)
    /\ \E k \in 1..Len(s) : JsonValid(SubSeq(s, 1, k))

(* C27 as stated: any valid JSON prefix of the bytes is taken as the       *)
(* complete message, also when more bytes follow it in the same read: the  *)
(* reader never goes on reading with a document at the start of its        *)
(* buffer.                                                                 *)
C27_Original ==
    \A h \in Handlers :
        conn[h].pc = "recv" => ~HasDocumentPrefix(conn[h].data)

(* C27, amended: the reader tests the whole buffer after each read and     *)
(* stops at the first read after which the buffer is one JSON document;    *)
(* the text it dispatches is the whole buffer, and the bytes not read by   *)
(* then are never read.  So a document followed by more bytes in a later   *)
(* read is dispatched and the rest is cut off, while bytes that come in    *)
(* the same read as the end of the document make the buffer fail to parse  *)
(* and the reader go on, until the whole buffer parses or the peer closes. *)
C27_WholeBufferFraming ==
    /\ [](\A h \in Handlers :
            /\ conn[h].pc = "recv" =>
                  ~WholeDocument(conn[h].data)
            /\ (PastLoop(h) /\ ~WholeDocument(conn[h].data)) =>
                  conn[h].stream = <<>> /\ conn[h].eof
            /\ (PastLoop(h) /\ conn[h].pc # "after_loop") =>
                  /\ conn[h].request = Parse(conn[h].data)
                  /\ conn[h].dispatches = 1)
    /\ [][\A h \in Handlers :
            (PastLoop(h) /\ PastLoop(h)') =>
                /\ conn'[h].stream = conn[h].stream
                /\ conn'[h].data = conn[h].data]_vars

(* a document has been dispatched while the bytes that followed it in a    *)
(* later read are left unread                                              *)
C27_Witness ==
    \E h \in Handlers :
        /\ conn[h].pc = "close"
        /\ conn[h].data = <<"{", "c", "}">>
        /\ conn[h].stream = <<"{", "c", "}">>
        /\ conn[h].wire.body.status = "success"

(* C28: within one connection the steps are sequential and happen at most  *)
(* once: execute_command is called only when the read loop has been left,  *)
(* the response is written only when execute_command has returned its      *)
(* envelope, and no connection sees a second call or a second response,    *)
(* also when it is left unclosed because auto-disconnect is off.           *)
C28_OneRequestPerConnection ==
    /\ [](\A h \in Handlers :
            /\ conn[h].dispatches <= 1
            /\ conn[h].writes <= 1
            /\ conn[h].writes <= conn[h].dispatches
            /\ conn[h].pc \in {"recv", "after_loop"} =>
                  conn[h].dispatches = 0 /\ conn[h].writes = 0)
    /\ [][\A h \in Handlers :
            /\ conn'[h].dispatches > conn[h].dispatches =>
                  /\ conn[h].pc = "after_loop"
                  /\ conn'[h].pc = "received"
                  /\ conn[h].dispatches = 0
            /\ conn'[h].writes > conn[h].writes =>
                  /\ conn[h].pc = "respond"
                  /\ conn[h].response.status \in {"success", "error"}
                  /\ conn'[h].wire.body = conn[h].response
                  /\ conn[h].writes = 0
            /\ (conn[h].pc = "close" /\ conn'[h].pc # "close") =>
                  conn'[h].pc = "done"]_vars

(* with auto-disconnect off, a handler has answered the first of two       *)
(* documents and is about to return, the second one unread                 *)
C28_Witness ==
    \E h \in Handlers :
        /\ ~auto_disconnect_client
        /\ conn[h].pc = "close"
        /\ conn[h].dispatches = 1
        /\ conn[h].writes = 1
        /\ conn[h].stream = <<"{", "c", "}">>

(* a termination or interrupt signal has been delivered *)
ShutdownRequested == server.signals > 0

(* a handler thread is started by this step *)
Started(h) == conn[h].pc # "recv" /\ conn'[h].pc = "recv"

(* C24: the delivery of a signal clears the running flag and closes the    *)
(* listening socket; from then on the flag stays false, the socket does    *)
(* not accept and no handler thread is started; and run(), being a thread  *)
(* that runs, leaves its loop, gives up the socket and returns.  The       *)
(* handlers that were at work are not touched by any of this.              *)
C24_Shutdown ==
    /\ [][server'.signals > server.signals =>
            /\ ~server'.running
            /\ server'.socket # "open"
            /\ server.socket = "open" => server'.socket = "closed"
            /\ \A h \in Handlers :
                  conn'[h].pc = conn[h].pc /\ conn'[h].sock = conn[h].sock]_vars
    /\ [](ShutdownRequested => ~server.running)
    /\ [][ShutdownRequested => \A h \in Handlers : ~Started(h)]_vars
    /\ [][server.seen => \A h \in Handlers : ~Started(h)]_vars
    /\ [](server.pc = "returned" => server.socket = "None")
    /\ ShutdownRequested ~> (server.pc = "returned")

(* after a signal run() has returned, the socket given up, while a handler *)
(* accepted before the signal still waits for its peer                     *)
C24_Witness ==
    /\ ShutdownRequested
    /\ server.pc = "returned"
    /\ server.seen
    /\ server.socket = "None"
    /\ \E h \in Handlers : conn[h].pc = "recv" /\ conn[h].sock = "open"

(* the handler of slot h waits in recv() for a peer that sends nothing and *)
(* does not close                                                          *)
Blocked(h) ==
    /\ conn[h].pc = "recv"
    /\ conn[h].stream = <<>>
    /\ ~conn[h].eof

(* the handler thread of slot h is at work *)
InFlight(h) == ~Free(h)

(* what a step of another thread may not take from a connection: its       *)
(* position, its socket, what it has written                               *)
NotDisturbed(h) ==
    /\ conn'[h].pc = conn[h].pc
    /\ conn'[h].sock = conn[h].sock
    /\ conn'[h].raised = conn[h].raised
    /\ conn'[h].stream = conn[h].stream
    /\ conn'[h].data = conn[h].data
    /\ conn'[h].writes = conn[h].writes
    /\ conn'[h].wire = conn[h].wire

(* C25: whatever happens in a connection handler (recv raises, the request *)
(* is malformed, the command raises, sendall raises, the peer stays silent *)
(* for ever) is a step of that handler's thread alone: it changes nothing  *)
(* of run() and nothing of another connection.  So, while no signal has    *)
(* been delivered, the loop runs with its socket open, accept() can time   *)
(* out and can return a new client for any free slot, and every other      *)
(* connection that has something to do can do it.                          *)
C25_HandlersAreIsolated ==
    /\ [][\A h \in Handlers :
            HandlerStep(h) =>
                /\ server' = server
                /\ \A u \in Handlers \ {h} : NotDisturbed(u)]_vars
    /\ [](server.signals = 0 /\ server.pc \in {"loop", "accept"} =>
            /\ server.running
            /\ server.socket = "open")
    /\ [](server.signals = 0 /\ server.pc = "loop" => ENABLED RunLoop)
    /\ [](server.signals = 0 /\ server.pc = "accept" =>
            /\ ENABLED AcceptTimeout
            /\ \A h \in Handlers : Free(h) => ENABLED AcceptAny(h))
    /\ [](\A h \in Handlers :
            InFlight(h) /\ ~Blocked(h) => ENABLED HandlerStep(h))

(* no signal; one handler waits for ever for a silent peer, the thread of  *)
(* another connection has died of an exception, and run() is in accept()   *)
C25_Witness ==
    /\ server.signals = 0
    /\ server.pc = "accept"
    /\ \E h \in Handlers, u \in Handlers :
          /\ Blocked(h)
          /\ conn[u].pc = "died"
          /\ conn[u].raised # "none"

(* an envelope of execute_command: its status is one of the two, and with  *)
(* the status "error" it has the key "error"                               *)
WellFormed(env) ==
    /\ "status" \in env.keys
    /\ env.status \in {"success", "error"}
    /\ env.status = "error" => "error" \in env.keys

(* the same of an envelope of _get_current_image_bitmap *)
WellFormedResult(env) ==
    /\ env.status \in {"success", "error"}
    /\ env.status = "error" => env.error # NoError /\ env.error.msg # ""

(* C26: whatever _get_current_image_bitmap returns and whatever            *)
(* execute_command returns has the status "success" or "error", and an     *)
(* "error" key whenever the status is "error"; and what a handler has      *)
(* written to its connection is the JSON text of the envelope              *)
(* execute_command returned to it.                                         *)
C26_EnvelopeShape ==
    /\ pc = "returned" => WellFormedResult(result)
    /\ \A h \in Handlers :
          /\ conn[h].pc \in {"respond", "close"} => WellFormed(conn[h].response)
          /\ conn[h].pc = "close" =>
                /\ conn[h].wire.format = "json"
                /\ conn[h].wire.body = conn[h].response
          /\ conn[h].writes > 0 =>
                /\ conn[h].wire.format = "json"
                /\ WellFormed(conn[h].wire.body)

(* the answer to a get_image_bitmap request has been written: an error     *)
(* envelope with its error string                                          *)
C26_Witness ==
    \E h \in Handlers :
        /\ conn[h].pc = "close"
        /\ conn[h].route = "get_image_bitmap"
        /\ conn[h].writes = 1
        /\ conn[h].wire.body.status = "error"
        /\ conn[h].wire.body.error # ""
        /\ "error" \in conn[h].wire.body.keys

(* the handler thread of slot h is inside exec_and_get_results *)
InExec(h) ==
    conn[h].pc \in {"exec_save", "exec_redirect", "exec_run", "exec_restore",
                    "exec_collect"}

(* C31: exec_and_get_results leaves sys.stdout as it found it, whether it  *)
(* returns or raises.  With requests served one at a time the first call   *)
(* finds the console, so whenever no call is in progress sys.stdout is the *)
(* console.                                                                *)
C31_StdoutRestored ==
    (\A h \in Handlers : ~InExec(h)) => sys_stdout = "console"

(* the handler thread of slot h has ended, by return or by an exception *)
HandlerEnded(h) == conn[h].pc \in {"done", "died"} /\ conn[h].sock # "none"

(* C32: with auto-disconnect on, a handler that has ended has closed its   *)
(* client socket, however it ended.  The flag is never set back to on, so  *)
(* a flag that is on now was on during the whole life of the handler.      *)
C32_SocketAlwaysClosed ==
    auto_disconnect_client =>
        \A h \in Handlers : HandlerEnded(h) => conn[h].sock = "closed"

(* C33: when run() has returned, self.running is false (so that the test   *)
(* of lines 86-88 lets the next call of run() start a server), whatever    *)
(* made the accept loop end.                                               *)
C33_ReturnedNotRunning ==
    server.pc = "returned" => ~server.running

(* C34: a call that has set a rectangle selection on the source image has  *)
(* cleared it by the time it returns, on every path.                       *)
C34_SelectionCleared ==
    (pc = "returned" /\ host.selects > 0) => ~host.selection

(* C35: a success envelope is returned only when an export procedure has   *)
(* written the PNG: its image data are never those of the empty temporary  *)
(* file.                                                                   *)
C35_SuccessMeansWritten ==
    (pc = "returned" /\ result.status = "success") => result.results.image_written

(* C36: when scale() is about to be called (line 468), the target it is    *)
(* given has a width and a height of at least 1.                           *)
C36_TargetAtLeastOne ==
    (pc = "scale" /\ loc.current_width * loc.current_height # 0) =>
        (loc.target_width >= 1 /\ loc.target_height >= 1)

(* C37: no request ends in the ZeroDivisionError of the aspect-ratio       *)
(* computation (lines 442-443, 463): a bound of 0 and a region of height 0 *)
(* are turned down by the validation instead.                              *)
C37_NoDivisionByZero ==
    pc = "returned" => result.error # ZeroDivisionError

(* ---------------------------------------------------------------------- *)
(* A statement that raises in the middle of a statement list               *)
(* ---------------------------------------------------------------------- *)

(* statement i of the list of h raised, and the except clause of lines     *)
(* 275-282 has built the response                                          *)
ExecFailed(h) ==
    /\ conn[h].pc = "respond"
    /\ conn[h].raised # "none"
    /\ conn[h].i >= 1

OrdinaryClients ==
    {[stream |-> <<"{", "t", "}">>, eof |-> FALSE],
     [stream |-> <<>>, eof |-> TRUE]}

(* such a client connects while auto-disconnect is on *)
AcceptWhileEnabled(h) ==
    /\ auto_disconnect_client
    /\ server.pc = "accept"
    /\ \E c \in OrdinaryClients : Accept(h, c.stream, c.eof)

(* a client that sends the sentinel, and closes its sending side or not,   *)
(* connects at any time                                                    *)
AcceptCarrier(h) ==
    /\ server.pc = "accept"
    /\ \E eof \in BOOLEAN : Accept(h, <<"d">>, eof)

(* run() from its call to its return, the signals, and handler threads     *)
(* that run at the same time: those of connections made while              *)
(* auto-disconnect was on and those of connections that turn it off        *)
FlagNext ==
    \/ RunStart
    \/ RunCreate
    \/ RunLoop
    \/ AcceptTimeout
    \/ AcceptRaises
    \/ AcceptFails
    \/ \E h \in Handlers : AcceptWhileEnabled(h)
    \/ \E h \in Handlers : AcceptCarrier(h)
    \/ RunCleanup
    \/ ShutdownServer
    \/ \E h \in Handlers : Recv(h)
    \/ \E h \in Handlers : RecvRaises(h)
    \/ \E h \in Handlers : AfterLoop(h)
    \/ \E h \in Handlers : ExecuteCommand(h)
    \/ \E h \in Handlers : Send(h)
    \/ \E h \in Handlers : SendRaises(h)
    \/ \E h \in Handlers : Disconnect(h)

SpecFlag == DispatchInit /\ [][FlagNext]_vars

(* this step is the assignment of line 217 *)
SentinelStep ==
    \E h \in Handlers :
        /\ conn[h].pc = "received"
        /\ conn[h].request.raw = "disable_auto_disconnect"
        /\ conn'[h].pc = "respond"

(* C39: the auto-disconnect flag is on when the plugin object has been     *)
(* built; the only step that changes it is the dispatch of the sentinel,   *)
(* which leaves it off; and once it is off no request, no new connection   *)
(* and no shutdown turns it on again.                                      *)
C39_FlagMonotonic ==
    /\ auto_disconnect_client = TRUE
    /\ [][auto_disconnect_client' # auto_disconnect_client => SentinelStep]_vars
    /\ [][SentinelStep => ~auto_disconnect_client']_vars
    /\ [](~auto_disconnect_client => [](~auto_disconnect_client))

(* the flag is off, a signal has been delivered and run() has returned; a  *)
(* request has been answered on a connection the handler left open, and    *)
(* the handler of a sentinel is about to answer                            *)
C39_Witness ==
    /\ ~auto_disconnect_client
    /\ server.signals > 0
    /\ server.pc = "returned"
    /\ \E h \in Handlers, u \in Handlers :
          /\ Served(h)
          /\ conn[h].wire.body.results = "handler"
          /\ conn[h].sock = "unreferenced"
          /\ conn[u].route = "sentinel"
          /\ conn[u].pc = "respond"

(* the request of h was the sentinel *)
Carrier(h) == conn[h].route = "sentinel"

====
